---- MODULE Spec2Model ----
(***************************************************************************)
(* KidFit: the enrollment-eligibility and schedule-conflict logic of       *)
(* app.py and models.py, as a state machine over the relational tables.    *)
(*                                                                         *)
(* A table is a function from the ids of its rows to the rows.  Python     *)
(* values whose type matters to the code (None, int, str, date) are        *)
(* records tagged with their kind, so that Python's truthiness and         *)
(* Python's == between a str and an int are computed as Python does.       *)
(***************************************************************************)
EXTENDS Integers, FiniteSets, Sequences, TLC

VARIABLES today, users, parents, centers, children, programs, teachers,
          schedules, enrollments, inflight, resp, trail

vars == <<today, users, parents, centers, children, programs, teachers,
          schedules, enrollments, inflight, resp, trail>>

(***************************************************************************)
(* Bounds of the model.                                                    *)
(***************************************************************************)
MaxCapacity == 1
MaxEnrollments == 2
MaxSchedules == 2
MaxUsers == 6
MaxPrograms == 3

\* Program.max_students when the form leaves it blank
DefaultMaxStudents == 20

(***************************************************************************)
(* Python values.                                                          *)
(***************************************************************************)
None == [kind |-> "none"]
PyInt(n) == [kind |-> "int", val |-> n]
\* the str of the decimal digits of n, as request.form.get returns it
PyStr(n) == [kind |-> "str", val |-> n]
\* a str that is not the digits of a number, such as 'x1' for n = 1
PyWord(n) == [kind |-> "word", val |-> n]
\* the empty str of a form field left blank
EmptyStr == [kind |-> "empty"]
PyDate(y, m, d) == [kind |-> "date", year |-> y, month |-> m, day |-> d]

\* bool(v), as `if v`, `v and ...`, all([...]) evaluate it
Truthy(v) ==
    CASE v.kind = "none" -> FALSE
      [] v.kind = "empty" -> FALSE
      [] v.kind = "int" -> v.val # 0
      [] v.kind = "str" -> TRUE
      [] v.kind = "word" -> TRUE
      [] v.kind = "date" -> TRUE

\* int(v) of a str of digits
PyToInt(v) == PyInt(v.val)

\* the value SQLite keeps in an INTEGER column for v, and compares with it:
\* the integer for a str of digits, the text itself for any other str
Stored(v) == IF v.kind = "str" THEN PyInt(v.val) ELSE v

(***************************************************************************)
(* The accounts.  A session holds the role of the logged-in user and the   *)
(* id of the Parent or Center row its user_id resolves to.                 *)
(***************************************************************************)
ParentIds == {1, 2}
CenterIds == {1, 2}
Anonymous == [user_role |-> "anonymous", profile |-> 0]
Sessions ==
    {Anonymous}
        \cup {[user_role |-> "parent", profile |-> p] : p \in ParentIds}
        \cup {[user_role |-> "center", profile |-> c] : c \in CenterIds}

\* the User, Parent and Center rows of the accounts: user u of role parent
\* has Parent row u, users 3 and 4 have the Center rows 1 and 2
UserRow(email, role) == [email |-> email, role |-> role]
ParentRow(user_id) == [user_id |-> user_id]
CenterRow(user_id, invite_code) == [user_id |-> user_id, invite_code |-> invite_code]

Users0 ==
    (1 :> UserRow("p1@kidfit.kz", "parent")) @@ (2 :> UserRow("p2@kidfit.kz", "parent"))
        @@ (3 :> UserRow("c1@kidfit.kz", "center"))
        @@ (4 :> UserRow("c2@kidfit.kz", "center"))

Parents0 == (1 :> ParentRow(1)) @@ (2 :> ParentRow(2))

Centers0 == (1 :> CenterRow(3, "A1B2C3D4")) @@ (2 :> CenterRow(4, "0F9E8D7C"))

\* no request in flight
NoRequests == <<>>

\* the accounts already registered when the requests of a specification
\* start, and no request in flight
Accounts0 ==
    /\ users = Users0
    /\ parents = Parents0
    /\ centers = Centers0
    /\ inflight = NoRequests

\* handlers that read the session never write User, Parent or Center rows
AccountsUnchanged == UNCHANGED <<users, parents, centers, inflight>>

login_required_any_role(sess, role) ==
    IF sess.user_role = "anonymous" THEN "login" ELSE "ok"

\* app.py login_required: "login", "dashboard" (redirects) or "ok" (body runs)
login_required(sess, role) ==
    IF sess.user_role = "anonymous" THEN "login"
    ELSE IF sess.user_role # role THEN "dashboard"
    ELSE "ok"

(***************************************************************************)
(* Tables.                                                                 *)
(***************************************************************************)
\* the id SQLite gives the next row of an INTEGER PRIMARY KEY table
NextId(table) ==
    IF DOMAIN table = {} THEN 1
    ELSE (CHOOSE i \in DOMAIN table : \A j \in DOMAIN table : j <= i) + 1

Insert(table, row) == (NextId(table) :> row) @@ table

ActivePairAnyStatus(child_id, schedule_id) ==
    {e \in DOMAIN enrollments :
        /\ enrollments[e].child_id = child_id
        /\ enrollments[e].schedule_id = schedule_id}

\* Enrollment.query.filter_by(child_id=, schedule_id=, status='active')
ActivePair(child_id, schedule_id) ==
    {e \in DOMAIN enrollments :
        /\ enrollments[e].child_id = child_id
        /\ enrollments[e].schedule_id = schedule_id
        /\ enrollments[e].status = "active"}

\* Enrollment.query.filter_by(schedule_id=, status='active').count()
ActiveCount(schedule_id) ==
    Cardinality({e \in DOMAIN enrollments :
        /\ enrollments[e].schedule_id = schedule_id
        /\ enrollments[e].status = "active"})

(***************************************************************************)
(* The last request and its response.  op is the handler, sess the session *)
(* of the request, reason the outcome reported, and the ids are those of   *)
(* the request (0 where the handler takes none).                           *)
(***************************************************************************)
Response(op, sess, code, reason, child_id, schedule_id, enrollment_id) ==
    [op |-> op, sess |-> sess, code |-> code, reason |-> reason,
     child_id |-> child_id, schedule_id |-> schedule_id,
     enrollment_id |-> enrollment_id]

NoResponse == Response("none", Anonymous, 0, "none", 0, 0, 0)

\* the redirect of login_required, which runs before the route's body
Redirected(op, sess, gate) == Response(op, sess, 302, gate, 0, 0, 0)

(***************************************************************************)
(* trail follows the requests for the sequence "enroll_child succeeds,     *)
(* then cancel_enrollment of that enrollment succeeds": it is at           *)
(* "enrolled" right after the first and at "cancelled" right after the     *)
(* second, and back at "none" after any other request.                     *)
(***************************************************************************)
NoTrail == [stage |-> "none", enrollment_id |-> 0]

Follow ==
    trail' =
        IF resp'.op = "enroll_child" /\ resp'.reason = "success"
        THEN [stage |-> "enrolled", enrollment_id |-> resp'.enrollment_id]
        ELSE IF /\ trail.stage = "enrolled"
                /\ resp'.op = "cancel_enrollment"
                /\ resp'.reason = "success"
                /\ resp'.enrollment_id = trail.enrollment_id
             THEN [stage |-> "cancelled", enrollment_id |-> trail.enrollment_id]
        ELSE NoTrail

(***************************************************************************)
(* enroll_child                                                            *)
(***************************************************************************)
\* whole years at the last birthday
child_age_birthday(day, birth_date) ==
    IF \/ day.month < birth_date.month
       \/ (day.month = birth_date.month /\ day.day < birth_date.day)
    THEN day.year - birth_date.year - 1
    ELSE day.year - birth_date.year

\* date.today().year - child.birth_date.year
child_age(day, birth_date) == day.year - birth_date.year

\* the age check with a child of unknown birth date taken as aged 0
AgeCheckUnknownAsZero(day, child, program) ==
    LET age == IF Truthy(child.birth_date) THEN child_age(day, child.birth_date) ELSE 0
    IN  IF Truthy(program.min_age) /\ age < program.min_age.val THEN "too_young"
        ELSE IF Truthy(program.max_age) /\ age > program.max_age.val THEN "too_old"
        ELSE "ok"

\* the age check of enroll_child: "ok", "too_young" or "too_old"
AgeCheck(day, child, program) ==
    IF ~Truthy(child.birth_date) THEN "ok"
    ELSE IF /\ Truthy(program.min_age)
            /\ child_age(day, child.birth_date) < program.min_age.val
         THEN "too_young"
    ELSE IF /\ Truthy(program.max_age)
            /\ child_age(day, child.birth_date) > program.max_age.val
         THEN "too_old"
    ELSE "ok"

ClassFullOffByOne(schedule_id) ==
    ActiveCount(schedule_id) > schedules[schedule_id].max_students

\* enroll_child without its capacity check
ClassFullIgnored(schedule_id) == FALSE

\* current_enrollments >= schedule.max_students
ClassFull(schedule_id) == ActiveCount(schedule_id) >= schedules[schedule_id].max_students

\* schedule.program is not None: the row program_id names exists
HasProgram(schedule_id) == schedules[schedule_id].program_id.val \in DOMAIN programs

EnrollDecisionCapacityFirst(sess, schedule_id, child_id) ==
    IF schedule_id \notin DOMAIN schedules THEN "schedule_not_found"
    ELSE IF ~(/\ child_id \in DOMAIN children
              /\ children[child_id].parent_id = sess.profile)
         THEN "child_not_found"
    ELSE IF ClassFull(schedule_id) THEN "class_full"
    ELSE IF ActivePair(child_id, schedule_id) # {} THEN "already_enrolled"
    ELSE AgeCheck(today, children[child_id],
                  programs[schedules[schedule_id].program_id.val])

\* the outcome of the checks of enroll_child, in the order the code runs them
EnrollDecision(sess, schedule_id, child_id) ==
    IF schedule_id \notin DOMAIN schedules THEN "schedule_not_found"
    ELSE IF ~(/\ child_id \in DOMAIN children
              /\ children[child_id].parent_id = sess.profile)
         THEN "child_not_found"
    ELSE IF ActivePair(child_id, schedule_id) # {} THEN "already_enrolled"
    \* schedule.program.min_age of a schedule without program: AttributeError
    ELSE IF Truthy(children[child_id].birth_date) /\ ~HasProgram(schedule_id)
         THEN "attribute_error"
    ELSE LET age == AgeCheck(today, children[child_id],
                             programs[schedules[schedule_id].program_id.val])
         IN  IF age # "ok" THEN age
             ELSE IF ClassFull(schedule_id) THEN "class_full"
             ELSE "ok"

EnrollErrorSharedAgeText(decision) ==
    CASE decision = "schedule_not_found" -> "Not Found"
      [] decision = "child_not_found" -> "Child not found"
      [] decision = "already_enrolled" -> "Child is already enrolled in this class"
      [] decision = "too_young" -> "Child is too young for this program"
      [] decision = "too_old" -> "Child is too young for this program"
      [] decision = "class_full" -> "Class is full"
      [] decision = "enrollment_failed" -> "Enrollment failed. Please try again."
      [] OTHER -> ""

\* the text the response carries for each outcome: the 'error' of the JSON
\* body (up to the bound the age messages quote), the name of the 404 that
\* get_or_404 raises, "" for a success, which has no 'error'
EnrollError(decision) ==
    CASE decision = "schedule_not_found" -> "Not Found"
      [] decision = "child_not_found" -> "Child not found"
      [] decision = "already_enrolled" -> "Child is already enrolled in this class"
      [] decision = "too_young" -> "Child is too young for this program"
      [] decision = "too_old" -> "Child is too old for this program"
      [] decision = "class_full" -> "Class is full"
      [] decision = "enrollment_failed" -> "Enrollment failed. Please try again."
      [] OTHER -> ""

EnrollCode(decision) ==
    IF decision \in {"schedule_not_found", "child_not_found"} THEN 404
    ELSE IF decision \in {"attribute_error", "enrollment_failed"} THEN 500
    ELSE 400

enroll_child(sess, schedule_id, child_id, commit_ok) ==
    LET gate == login_required(sess, "parent")
        decision == EnrollDecision(sess, schedule_id, child_id)
    IN  /\ (gate = "ok" /\ decision = "ok" /\ commit_ok)
                => Cardinality(DOMAIN enrollments) < MaxEnrollments
        /\ IF gate # "ok"
           THEN /\ resp' = Redirected("enroll_child", sess, gate)
                /\ UNCHANGED enrollments
           ELSE IF decision # "ok"
           THEN /\ resp' = Response("enroll_child", sess, EnrollCode(decision), decision,
                                    child_id, schedule_id, 0)
                /\ UNCHANGED enrollments
           ELSE IF ~commit_ok
           THEN /\ resp' = Response("enroll_child", sess, 500, "enrollment_failed",
                                    child_id, schedule_id, 0)
                /\ UNCHANGED enrollments
           \* the commit is done when the message reads schedule.program.name: on
           \* a schedule without program the row stays and the answer is the 500
           ELSE /\ enrollments' = Insert(enrollments,
                        [child_id |-> child_id, schedule_id |-> schedule_id,
                         status |-> "active"])
                /\ resp' = IF HasProgram(schedule_id)
                           THEN Response("enroll_child", sess, 200, "success",
                                         child_id, schedule_id, NextId(enrollments))
                           ELSE Response("enroll_child", sess, 500, "enrollment_failed",
                                         child_id, schedule_id, NextId(enrollments))
        /\ UNCHANGED <<today, children, programs, teachers, schedules>>

(***************************************************************************)
(* available_programs: GET /api/available-programs/<child_id>.  The body   *)
(* lists one entry per schedule that passes the route's checks; listed is  *)
(* the set of the schedule ids of the entries.                             *)
(***************************************************************************)
AvailableResponse(sess, code, reason, child_id, listed) ==
    [op |-> "available_programs", sess |-> sess, code |-> code, reason |-> reason,
     child_id |-> child_id, schedule_id |-> 0, enrollment_id |-> 0, listed |-> listed]

\* the loop's "Check age requirements": child_age is None or an int, and
\* "if child_age:" skips the check for None and for 0
AvailableAgeOk(age, program) ==
    IF ~Truthy(age) THEN TRUE
    ELSE /\ ~(Truthy(program.min_age) /\ age.val < program.min_age.val)
         /\ ~(Truthy(program.max_age) /\ age.val > program.max_age.val)

\* the schedules the loop appends an entry for
AvailableSchedules(child_id) ==
    LET birth_date == children[child_id].birth_date
        age == IF Truthy(birth_date) THEN PyInt(child_age(today, birth_date)) ELSE None
    IN  {s \in DOMAIN schedules :
            /\ schedules[s].is_active
            /\ ActivePair(child_id, s) = {}
            /\ AvailableAgeOk(age, programs[schedules[s].program_id.val])
            /\ ActiveCount(s) < schedules[s].max_students}

available_programs(sess, child_id) ==
    LET gate == login_required(sess, "parent")
        found == /\ child_id \in DOMAIN children
                 /\ children[child_id].parent_id = sess.profile
        \* schedule.program is read for every active schedule the child is not
        \* active on, by the age check or by the entry: None raises
        orphans == {s \in DOMAIN schedules :
                        /\ schedules[s].is_active
                        /\ ActivePair(child_id, s) = {}
                        /\ ~HasProgram(s)
                        /\ \/ Truthy(children[child_id].birth_date)
                              /\ child_age(today, children[child_id].birth_date) # 0
                           \/ ActiveCount(s) < schedules[s].max_students}
    IN  /\ resp' = IF gate # "ok" THEN Redirected("available_programs", sess, gate)
                   ELSE IF ~found
                   THEN AvailableResponse(sess, 404, "child_not_found", child_id, {})
                   ELSE IF orphans # {}
                   THEN AvailableResponse(sess, 500, "attribute_error", child_id, {})
                   ELSE AvailableResponse(sess, 200, "success", child_id,
                                          AvailableSchedules(child_id))
        /\ UNCHANGED <<today, children, programs, teachers, schedules, enrollments>>

(***************************************************************************)
(* cancel_enrollment                                                       *)
(***************************************************************************)
\* cancel_enrollment without the join on Child.parent_id: any parent's
\* session cancels any enrollment
cancel_enrollment_any_parent(sess, enrollment_id, commit_ok) ==
    LET gate == login_required(sess, "parent")
    IN  /\ IF gate # "ok"
           THEN /\ resp' = Redirected("cancel_enrollment", sess, gate)
                /\ UNCHANGED enrollments
           ELSE IF enrollment_id \notin DOMAIN enrollments
           THEN /\ resp' = Response("cancel_enrollment", sess, 404, "enrollment_not_found",
                                    0, 0, enrollment_id)
                /\ UNCHANGED enrollments
           ELSE IF ~commit_ok
           THEN /\ resp' = Response("cancel_enrollment", sess, 500, "cancel_failed",
                                    0, 0, enrollment_id)
                /\ UNCHANGED enrollments
           ELSE /\ enrollments' = [enrollments EXCEPT
                                     ![enrollment_id].status = "cancelled"]
                /\ resp' = Response("cancel_enrollment", sess, 200, "success",
                                    enrollments[enrollment_id].child_id,
                                    enrollments[enrollment_id].schedule_id,
                                    enrollment_id)
        /\ UNCHANGED <<today, children, programs, teachers, schedules>>

cancel_enrollment(sess, enrollment_id, commit_ok) ==
    LET gate == login_required(sess, "parent")
        found == /\ enrollment_id \in DOMAIN enrollments
                 /\ enrollments[enrollment_id].child_id \in DOMAIN children
                 /\ children[enrollments[enrollment_id].child_id].parent_id
                        = sess.profile
    IN  /\ IF gate # "ok"
           THEN /\ resp' = Redirected("cancel_enrollment", sess, gate)
                /\ UNCHANGED enrollments
           ELSE IF ~found
           THEN /\ resp' = Response("cancel_enrollment", sess, 404, "enrollment_not_found",
                                    0, 0, enrollment_id)
                /\ UNCHANGED enrollments
           ELSE IF ~commit_ok
           THEN /\ resp' = Response("cancel_enrollment", sess, 500, "cancel_failed",
                                    0, 0, enrollment_id)
                /\ UNCHANGED enrollments
           ELSE /\ enrollments' = [enrollments EXCEPT
                                     ![enrollment_id].status = "cancelled"]
                /\ resp' = Response("cancel_enrollment", sess, 200, "success",
                                    enrollments[enrollment_id].child_id,
                                    enrollments[enrollment_id].schedule_id,
                                    enrollment_id)
        /\ UNCHANGED <<today, children, programs, teachers, schedules>>

(***************************************************************************)
(* approve_enrollment                                                      *)
(***************************************************************************)
approve_enrollment(sess, enrollment_id, commit_ok) ==
    LET gate == login_required(sess, "center")
        found == /\ enrollment_id \in DOMAIN enrollments
                 /\ enrollments[enrollment_id].schedule_id \in DOMAIN schedules
                 /\ LET s == schedules[enrollments[enrollment_id].schedule_id]
                    IN  /\ s.program_id.val \in DOMAIN programs
                        /\ programs[s.program_id.val].center_id = sess.profile
    IN  /\ IF gate # "ok"
           THEN /\ resp' = Redirected("approve_enrollment", sess, gate)
                /\ UNCHANGED enrollments
           ELSE IF ~found
           THEN /\ resp' = Response("approve_enrollment", sess, 404, "enrollment_not_found",
                                    0, 0, enrollment_id)
                /\ UNCHANGED enrollments
           ELSE IF ~commit_ok
           THEN /\ resp' = Response("approve_enrollment", sess, 500, "approve_failed",
                                    0, 0, enrollment_id)
                /\ UNCHANGED enrollments
           ELSE /\ enrollments' = [enrollments EXCEPT
                                     ![enrollment_id].status = "active"]
                /\ resp' = Response("approve_enrollment", sess, 200, "success",
                                    enrollments[enrollment_id].child_id,
                                    enrollments[enrollment_id].schedule_id,
                                    enrollment_id)
        /\ UNCHANGED <<today, children, programs, teachers, schedules>>

(***************************************************************************)
(* enroll_child, query by query, for requests served at the same time.     *)
(* A request in flight holds what its handler has read so far: pc is the   *)
(* query it runs next, current_enrollments the count it read (-1 before).  *)
(* Each query reads the rows committed when it runs; nothing is written    *)
(* before db.session.commit().                                             *)
(***************************************************************************)
RequestRow(pc, sess, schedule_id, child_id, current_enrollments, reason) ==
    [pc |-> pc, sess |-> sess, schedule_id |-> schedule_id, child_id |-> child_id,
     current_enrollments |-> current_enrollments, reason |-> reason]

IdleRequest == RequestRow("idle", Anonymous, 0, 0, -1, "none")

\* the request r ends with the given outcome
RequestDone(r, reason) ==
    /\ inflight' = [inflight EXCEPT ![r].pc = "done", ![r].reason = reason]
    /\ resp' = Response("enroll_child", inflight[r].sess,
                        IF reason = "success" THEN 200 ELSE EnrollCode(reason),
                        reason, inflight[r].child_id, inflight[r].schedule_id, 0)

\* login_required, then the Parent, Child and Schedule lookups
enroll_child_lookup(r, sess, schedule_id, child_id) ==
    /\ inflight[r].pc = "idle"
    /\ LET gate == login_required(sess, "parent")
           started == RequestRow("duplicate", sess, schedule_id, child_id, -1, "none")
       IN  IF gate # "ok"
           THEN /\ inflight' = [inflight EXCEPT ![r] =
                        [started EXCEPT !.pc = "done", !.reason = gate]]
                /\ resp' = Redirected("enroll_child", sess, gate)
           ELSE IF schedule_id \notin DOMAIN schedules
           THEN /\ inflight' = [inflight EXCEPT ![r] =
                        [started EXCEPT !.pc = "done", !.reason = "schedule_not_found"]]
                /\ resp' = Response("enroll_child", sess, 404, "schedule_not_found",
                                    child_id, schedule_id, 0)
           ELSE IF ~(/\ child_id \in DOMAIN children
                     /\ children[child_id].parent_id = sess.profile)
           THEN /\ inflight' = [inflight EXCEPT ![r] =
                        [started EXCEPT !.pc = "done", !.reason = "child_not_found"]]
                /\ resp' = Response("enroll_child", sess, 404, "child_not_found",
                                    child_id, schedule_id, 0)
           ELSE /\ inflight' = [inflight EXCEPT ![r] = started]
                /\ UNCHANGED resp
    /\ UNCHANGED <<today, users, parents, centers, children, programs, teachers,
                   schedules, enrollments, trail>>

\* the query for an active enrollment of the pair, then the age check
enroll_child_duplicate(r) ==
    /\ inflight[r].pc = "duplicate"
    /\ LET age == AgeCheck(today, children[inflight[r].child_id],
                    programs[schedules[inflight[r].schedule_id].program_id.val])
       IN  IF ActivePair(inflight[r].child_id, inflight[r].schedule_id) # {}
           THEN RequestDone(r, "already_enrolled")
           ELSE IF age # "ok" THEN RequestDone(r, age)
           ELSE /\ inflight' = [inflight EXCEPT ![r].pc = "capacity"]
                /\ UNCHANGED resp
    /\ UNCHANGED <<today, users, parents, centers, children, programs, teachers,
                   schedules, enrollments, trail>>

\* the count of the active enrollments of the schedule, and its comparison
\* with max_students
enroll_child_count(r) ==
    /\ inflight[r].pc = "capacity"
    /\ LET current_enrollments == ActiveCount(inflight[r].schedule_id)
       IN  IF current_enrollments >= schedules[inflight[r].schedule_id].max_students
           THEN /\ inflight' = [inflight EXCEPT ![r].pc = "done",
                        ![r].reason = "class_full",
                        ![r].current_enrollments = current_enrollments]
                /\ resp' = Response("enroll_child", inflight[r].sess, 400, "class_full",
                                    inflight[r].child_id, inflight[r].schedule_id, 0)
           ELSE /\ inflight' = [inflight EXCEPT ![r].pc = "commit",
                        ![r].current_enrollments = current_enrollments]
                /\ UNCHANGED resp
    /\ UNCHANGED <<today, users, parents, centers, children, programs, teachers,
                   schedules, enrollments, trail>>

enroll_child_commit_rechecked(r, commit_ok) ==
    /\ inflight[r].pc = "commit"
    /\ IF ClassFull(inflight[r].schedule_id)
       THEN /\ RequestDone(r, "class_full")
            /\ UNCHANGED enrollments
       ELSE IF ~commit_ok
       THEN /\ RequestDone(r, "enrollment_failed")
            /\ UNCHANGED enrollments
       ELSE /\ enrollments' = Insert(enrollments,
                    [child_id |-> inflight[r].child_id,
                     schedule_id |-> inflight[r].schedule_id, status |-> "active"])
            /\ RequestDone(r, "success")
    /\ UNCHANGED <<today, users, parents, centers, children, programs, teachers,
                   schedules, trail>>

\* db.session.add(enrollment); db.session.commit(); a commit that raises
\* (the database locked by the other request's write) is rolled back and
\* answered with the 500
enroll_child_commit(r, commit_ok) ==
    /\ inflight[r].pc = "commit"
    /\ IF ~commit_ok
       THEN /\ RequestDone(r, "enrollment_failed")
            /\ UNCHANGED enrollments
       ELSE /\ enrollments' = Insert(enrollments,
                    [child_id |-> inflight[r].child_id,
                     schedule_id |-> inflight[r].schedule_id, status |-> "active"])
            /\ RequestDone(r, "success")
    /\ UNCHANGED <<today, users, parents, centers, children, programs, teachers,
                   schedules, trail>>

(***************************************************************************)
(* edit_child: the birth date, the field the age checks read.  The other   *)
(* fields of the form are taken as filled in, no photo is uploaded.        *)
(***************************************************************************)
\* datetime.strptime(birth_date_str, '%Y-%m-%d').date() on the strs the
\* forms submit; any other str raises ValueError
strptime(birth_date_str) ==
    CASE birth_date_str = "2023-06-15" -> PyDate(2023, 6, 15)
      [] birth_date_str = "2025-06-15" -> PyDate(2025, 6, 15)
      [] OTHER -> [kind |-> "ValueError"]

edit_child(sess, child_id, birth_date_str, commit_ok) ==
    LET gate == login_required(sess, "parent")
        found == /\ child_id \in DOMAIN children
                 /\ children[child_id].parent_id = sess.profile
        Reply(code, reason) ==
            /\ resp' = Response("edit_child", sess, code, reason, child_id, 0, 0)
            /\ UNCHANGED children
    IN  /\ IF gate # "ok"
           THEN /\ resp' = Redirected("edit_child", sess, gate)
                /\ UNCHANGED children
           ELSE IF ~found THEN Reply(302, "child_not_found")
           \* a blank birth date leaves the stored one
           ELSE IF birth_date_str # "" /\ strptime(birth_date_str).kind = "ValueError"
           THEN Reply(200, "invalid_birth_date")
           ELSE IF ~commit_ok THEN Reply(200, "error")
           ELSE /\ children' = [children EXCEPT ![child_id].birth_date =
                                    IF birth_date_str = "" THEN @
                                    ELSE strptime(birth_date_str)]
                /\ resp' = Response("edit_child", sess, 302, "success", child_id, 0, 0)
        /\ UNCHANGED <<today, programs, teachers, schedules, enrollments>>

(***************************************************************************)
(* delete_child, delete_program and delete_schedule.  No relationship has  *)
(* a delete cascade: when the deleted row still has rows that refer to it  *)
(* (enrollments of the child or of the schedule, schedules of the          *)
(* program), the flush sets their foreign key to NULL, the NOT NULL column *)
(* refuses it, and the handler rolls back.                                 *)
(***************************************************************************)
RemoveRow(table, id) == [i \in DOMAIN table \ {id} |-> table[i]]

\* the response of a delete handler; the ids are those of the request
DeleteResponse(op, sess, reason, child_id, program_id, schedule_id) ==
    [op |-> op, sess |-> sess, code |-> 302, reason |-> reason,
     child_id |-> child_id, program_id |-> program_id,
     schedule_id |-> schedule_id, enrollment_id |-> 0]

\* Enrollment.query.filter_by(child_id=child.id, status='active').count()
ActiveOfChild(child_id) ==
    Cardinality({e \in DOMAIN enrollments :
        /\ enrollments[e].child_id = child_id
        /\ enrollments[e].status = "active"})

ActiveOfProgramUnjoined(program_id) ==
    Cardinality({e \in DOMAIN enrollments :
        /\ enrollments[e].schedule_id = program_id
        /\ enrollments[e].status = "active"})

\* query(Enrollment).join(Schedule).filter(Schedule.program_id == program.id,
\* Enrollment.status == 'active').count()
ActiveOfProgram(program_id) ==
    Cardinality({e \in DOMAIN enrollments :
        /\ enrollments[e].schedule_id \in DOMAIN schedules
        /\ schedules[enrollments[e].schedule_id].program_id = PyInt(program_id)
        /\ enrollments[e].status = "active"})

delete_child(sess, child_id, commit_ok) ==
    LET gate == login_required(sess, "parent")
        found == /\ child_id \in DOMAIN children
                 /\ children[child_id].parent_id = sess.profile
        referring == {e \in DOMAIN enrollments : enrollments[e].child_id = child_id}
        answer(reason) == DeleteResponse("delete_child", sess, reason, child_id, 0, 0)
    IN  /\ IF gate # "ok"
           THEN resp' = answer(gate) /\ UNCHANGED children
           ELSE IF ~found
           THEN resp' = answer("child_not_found") /\ UNCHANGED children
           ELSE IF ActiveOfChild(child_id) > 0
           THEN resp' = answer("active_enrollments") /\ UNCHANGED children
           ELSE IF referring # {} \/ ~commit_ok
           THEN resp' = answer("error") /\ UNCHANGED children
           ELSE resp' = answer("success") /\ children' = RemoveRow(children, child_id)
        /\ UNCHANGED <<today, users, parents, centers, programs, teachers,
                       schedules, enrollments, inflight>>

delete_program(sess, program_id, commit_ok) ==
    LET gate == login_required(sess, "center")
        found == /\ program_id \in DOMAIN programs
                 /\ programs[program_id].center_id = sess.profile
        referring == {i \in DOMAIN schedules :
                         schedules[i].program_id = PyInt(program_id)}
        answer(reason) == DeleteResponse("delete_program", sess, reason, 0, program_id, 0)
    IN  /\ IF gate # "ok"
           THEN resp' = answer(gate) /\ UNCHANGED programs
           ELSE IF ~found
           THEN resp' = answer("program_not_found") /\ UNCHANGED programs
           ELSE IF ActiveOfProgram(program_id) > 0
           THEN resp' = answer("active_enrollments") /\ UNCHANGED programs
           ELSE IF referring # {} \/ ~commit_ok
           THEN resp' = answer("error") /\ UNCHANGED programs
           ELSE resp' = answer("success") /\ programs' = RemoveRow(programs, program_id)
        /\ UNCHANGED <<today, users, parents, centers, children, teachers,
                       schedules, enrollments, inflight>>

delete_schedule(sess, schedule_id, commit_ok) ==
    LET gate == login_required(sess, "center")
        found == /\ schedule_id \in DOMAIN schedules
                 /\ schedules[schedule_id].program_id.val \in DOMAIN programs
                 /\ programs[schedules[schedule_id].program_id.val].center_id
                        = sess.profile
        referring == {e \in DOMAIN enrollments :
                         enrollments[e].schedule_id = schedule_id}
        answer(reason) == DeleteResponse("delete_schedule", sess, reason, 0, 0, schedule_id)
    IN  /\ IF gate # "ok"
           THEN resp' = answer(gate) /\ UNCHANGED schedules
           ELSE IF ~found
           THEN resp' = answer("schedule_not_found") /\ UNCHANGED schedules
           ELSE IF ActiveCount(schedule_id) > 0
           THEN resp' = answer("active_enrollments") /\ UNCHANGED schedules
           ELSE IF referring # {} \/ ~commit_ok
           THEN resp' = answer("error") /\ UNCHANGED schedules
           ELSE resp' = answer("success") /\ schedules' = RemoveRow(schedules, schedule_id)
        /\ UNCHANGED <<today, users, parents, centers, children, programs,
                       teachers, enrollments, inflight>>

(***************************************************************************)
(* register_parent, register_center and register_teacher.  A form field    *)
(* is the str submitted, "" when left blank; the fields other than the     *)
(* email and the invite code are taken as filled in.                       *)
(***************************************************************************)
TeacherRow(user_id, center_id) == [user_id |-> user_id, center_id |-> center_id]

\* the response of a registration: the email and invite code of the request
\* and the id of the User row created (0 when none)
RegisterResponse(op, code, reason, email, invite_code, user_id) ==
    [op |-> op, code |-> code, reason |-> reason, email |-> email,
     invite_code |-> invite_code, user_id |-> user_id]

\* User.query.filter_by(email=email).first()
existing_user(email) == {u \in DOMAIN users : users[u].email = email}

\* str.upper() on the invite codes submitted
Upper(str) ==
    CASE str = "a1b2c3d4" -> "A1B2C3D4"
      [] str = "A1b2c3D4" -> "A1B2C3D4"
      [] str = "0f9e8d7c" -> "0F9E8D7C"
      [] str = "ffffffff" -> "FFFFFFFF"
      [] OTHER -> str

CenterOfAnyCode(invite_code) ==
    IF DOMAIN centers = {} THEN {}
    ELSE {CHOOSE c \in DOMAIN centers : \A d \in DOMAIN centers : c <= d}

\* Center.query.filter_by(invite_code=invite_code.upper()).first()
CenterOfCode(invite_code) ==
    LET found == {c \in DOMAIN centers : centers[c].invite_code = Upper(invite_code)}
    IN  IF found = {} THEN {}
        ELSE {CHOOSE c \in found : \A d \in found : c <= d}

\* Center.generate_invite_code: the first of the tokens drawn that no center
\* has; the loop draws until there is one
generate_invite_code(tokens) ==
    LET unused == {i \in DOMAIN tokens :
                      \A c \in DOMAIN centers : centers[c].invite_code # tokens[i]}
    IN  tokens[CHOOSE i \in unused : \A j \in unused : i <= j]

register_parent_unchecked(email, commit_ok) ==
    /\ Cardinality(DOMAIN users) < MaxUsers
    /\ users' = Insert(users, UserRow(email, "parent"))
    /\ parents' = Insert(parents, ParentRow(NextId(users)))
    /\ resp' = RegisterResponse("register_parent", 302, "success", email, "",
                                NextId(users))
    /\ UNCHANGED <<centers, teachers>>

register_parent(email, commit_ok) ==
    LET Reply(code, reason) ==
            /\ resp' = RegisterResponse("register_parent", code, reason, email, "", 0)
            /\ UNCHANGED <<users, parents>>
    IN  /\ IF email = "" THEN Reply(200, "missing_fields")
           ELSE IF existing_user(email) # {} THEN Reply(200, "email_registered")
           ELSE IF ~commit_ok THEN Reply(200, "error")
           ELSE /\ Cardinality(DOMAIN users) < MaxUsers
                /\ users' = Insert(users, UserRow(email, "parent"))
                /\ parents' = Insert(parents, ParentRow(NextId(users)))
                /\ resp' = RegisterResponse("register_parent", 302, "success", email,
                                            "", NextId(users))
        /\ UNCHANGED <<centers, teachers>>

\* register_center waits for the geocoder of the address between its query
\* for the email and its inserts, and other requests are served meanwhile:
\* it is two steps.  A registration in flight: where it is and the email it
\* submitted
RegistrationRow(pc, email) == [pc |-> pc, email |-> email]

IdleRegistration == RegistrationRow("idle", "")

\* the form check and the query for the email (lines 150-158); the request
\* that passes them goes on to geocode_address and has no answer yet
register_center_check(r, email) ==
    LET Reply(code, reason) ==
            /\ resp' = RegisterResponse("register_center", code, reason, email, "", 0)
            /\ UNCHANGED inflight
    IN  /\ inflight[r].pc = "idle"
        /\ IF email = "" THEN Reply(200, "missing_fields")
           ELSE IF existing_user(email) # {} THEN Reply(200, "email_registered")
           ELSE /\ inflight' = [inflight EXCEPT ![r] = RegistrationRow("geocode", email)]
                /\ resp' = RegisterResponse("register_center", 0, "geocoding", email, "", 0)
        /\ UNCHANGED <<users, parents, centers, teachers>>

\* the inserts without the rollback of line 197: the flushed User stays
register_center_insert_no_rollback(r, tokens, commit_ok) ==
    LET email == inflight[r].email
    IN  /\ inflight[r].pc = "geocode"
        /\ inflight' = [inflight EXCEPT ![r] = IdleRegistration]
        /\ IF existing_user(email) # {}
           THEN /\ resp' = RegisterResponse("register_center", 200, "error", email, "", 0)
                /\ UNCHANGED <<users, centers>>
           ELSE IF ~commit_ok
           THEN /\ Cardinality(DOMAIN users) < MaxUsers
                /\ users' = Insert(users, UserRow(email, "center"))
                /\ resp' = RegisterResponse("register_center", 200, "error", email, "", 0)
                /\ UNCHANGED centers
           ELSE /\ Cardinality(DOMAIN users) < MaxUsers
                /\ users' = Insert(users, UserRow(email, "center"))
                /\ centers' = Insert(centers,
                        CenterRow(NextId(users), generate_invite_code(tokens)))
                /\ resp' = RegisterResponse("register_center", 302, "success", email,
                                            generate_invite_code(tokens), NextId(users))
        /\ UNCHANGED <<parents, teachers>>

\* the inserts after the geocoder answered (lines 172-188).  The flush of
\* the User row fails on the unique index of User.email when another
\* request registered the email during the wait; that and a failing commit
\* are rolled back and answered with the error message
register_center_insert(r, tokens, commit_ok) ==
    LET email == inflight[r].email
    IN  /\ inflight[r].pc = "geocode"
        /\ inflight' = [inflight EXCEPT ![r] = IdleRegistration]
        /\ IF existing_user(email) # {} \/ ~commit_ok
           THEN /\ resp' = RegisterResponse("register_center", 200, "error", email, "", 0)
                /\ UNCHANGED <<users, centers>>
           ELSE /\ Cardinality(DOMAIN users) < MaxUsers
                /\ users' = Insert(users, UserRow(email, "center"))
                /\ centers' = Insert(centers,
                        CenterRow(NextId(users), generate_invite_code(tokens)))
                /\ resp' = RegisterResponse("register_center", 302, "success", email,
                                            generate_invite_code(tokens), NextId(users))
        /\ UNCHANGED <<parents, teachers>>

register_teacher(email, invite_code, commit_ok) ==
    LET center == CenterOfCode(invite_code)
        Reply(code, reason) ==
            /\ resp' = RegisterResponse("register_teacher", code, reason, email,
                                        invite_code, 0)
            /\ UNCHANGED <<users, teachers>>
    IN  /\ IF email = "" \/ invite_code = "" THEN Reply(200, "missing_fields")
           ELSE IF existing_user(email) # {} THEN Reply(200, "email_registered")
           ELSE IF center = {} THEN Reply(200, "invalid_invite_code")
           ELSE IF ~commit_ok THEN Reply(200, "error")
           ELSE /\ Cardinality(DOMAIN users) < MaxUsers
                /\ users' = Insert(users, UserRow(email, "teacher"))
                /\ \E c \in center :
                      teachers' = Insert(teachers, TeacherRow(NextId(users), c))
                /\ resp' = RegisterResponse("register_teacher", 302, "success", email,
                                            invite_code, NextId(users))
        /\ UNCHANGED <<parents, centers>>

(***************************************************************************)
(* Schedules: times of day and Schedule.conflicts_with                     *)
(***************************************************************************)
PyTime(h, m) == [kind |-> "time", hour |-> h, minute |-> m]

\* datetime.time orders by (hour, minute)
TimeLT(a, b) == a.hour < b.hour \/ (a.hour = b.hour /\ a.minute < b.minute)
TimeLE(a, b) == a = b \/ TimeLT(a, b)
\* start_time > end_time in place of >=
TimeGT(a, b) == TimeLT(b, a)
TimeGE(a, b) == TimeLE(b, a)

\* what time.fromisoformat makes of the strs the forms submit; any other str
\* raises ValueError
IsoTimes ==
    ("09:00" :> PyTime(9, 0)) @@ ("10:00" :> PyTime(10, 0))
        @@ ("10:30" :> PyTime(10, 30)) @@ ("11:00" :> PyTime(11, 0))

ValueError == [kind |-> "ValueError"]

fromisoformat(str) == IF str \in DOMAIN IsoTimes THEN IsoTimes[str] ELSE ValueError

conflicts_with_one_sided(self, other_schedule) ==
    IF self.day_of_week # other_schedule.day_of_week THEN FALSE
    ELSE IF self.teacher_id # other_schedule.teacher_id THEN FALSE
    ELSE ~TimeLE(self.end_time, other_schedule.start_time)

conflicts_with_unordered(self, other_schedule) ==
    IF self.day_of_week # other_schedule.day_of_week THEN FALSE
    ELSE IF self.teacher_id # other_schedule.teacher_id THEN FALSE
    ELSE \/ self.start_time = other_schedule.start_time
         \/ ~(\/ TimeLE(self.end_time, other_schedule.start_time)
              \/ TimeGE(self.start_time, other_schedule.end_time))

conflicts_with_closed(self, other_schedule) ==
    IF self.day_of_week # other_schedule.day_of_week THEN FALSE
    ELSE IF self.teacher_id # other_schedule.teacher_id THEN FALSE
    ELSE ~(\/ TimeLT(self.end_time, other_schedule.start_time)
           \/ TimeLT(other_schedule.end_time, self.start_time))

\* Schedule.conflicts_with(self, other_schedule); != is Python's, which holds
\* between a str and an int whatever their digits
conflicts_with(self, other_schedule) ==
    IF self.day_of_week # other_schedule.day_of_week THEN FALSE
    ELSE IF self.teacher_id # other_schedule.teacher_id THEN FALSE
    ELSE ~(\/ TimeLE(self.end_time, other_schedule.start_time)
           \/ TimeGE(self.start_time, other_schedule.end_time))

ScheduleRow(program_id, teacher_id, day_of_week, start_time, end_time, max_students, is_active) ==
    [program_id |-> program_id, teacher_id |-> teacher_id,
     day_of_week |-> day_of_week, start_time |-> start_time,
     end_time |-> end_time, max_students |-> max_students,
     is_active |-> is_active]

\* the row as the database keeps it once committed: SQLite's INTEGER columns
\* turn a str of digits into the integer
StoredSchedule(row) ==
    [row EXCEPT !.program_id = Stored(row.program_id),
                !.teacher_id = Stored(row.teacher_id),
                !.day_of_week = Stored(row.day_of_week)]

\* Schedule.query.filter(teacher_id == , day_of_week == , is_active == True,
\* id != skip_id): the ids of the rows, in the order the loop visits them
ExistingSchedules(teacher_id, day_of_week, skip_id) ==
    {e \in DOMAIN schedules :
        /\ e # skip_id
        /\ schedules[e].teacher_id = Stored(teacher_id)
        /\ schedules[e].day_of_week = Stored(day_of_week)
        /\ schedules[e].is_active}

\* the first row of the loop that conflicts with the candidate, 0 when none does
FirstConflict(candidate, existing) ==
    LET hits == {e \in existing : conflicts_with(candidate, schedules[e])}
    IN  IF hits = {} THEN 0
        ELSE CHOOSE e \in hits : \A f \in hits : e <= f

(***************************************************************************)
(* add_schedule and edit_schedule.  A form holds what request.form.get     *)
(* returns: strs of digits for the ids, the weekday and max_students, strs *)
(* for the times, EmptyStr or "" for a field left blank.                   *)
(***************************************************************************)
ScheduleForm(program_id, teacher_id, day_of_week, start_time, end_time, max_students, is_active) ==
    [program_id |-> program_id, teacher_id |-> teacher_id,
     day_of_week |-> day_of_week, start_time |-> start_time,
     end_time |-> end_time, max_students |-> max_students,
     is_active |-> is_active]

NoForm == [kind |-> "none"]

\* the response of a schedule handler: the id of the schedule created or
\* edited, the existing schedule reported as colliding (0 when none) and,
\* for a request that reached the conflict loop, its form
ScheduleResponse(op, sess, code, reason, schedule_id, existing_id, form) ==
    [op |-> op, sess |-> sess, code |-> code, reason |-> reason,
     child_id |-> 0, schedule_id |-> schedule_id, enrollment_id |-> 0,
     existing_id |-> existing_id, form |-> form]

\* Program.query.filter_by(id=program_id, center_id=center.id).first()
ProgramOfCenter(program_id, center_id) ==
    /\ Truthy(program_id)
    /\ Stored(program_id).val \in DOMAIN programs
    /\ programs[Stored(program_id).val].center_id = center_id

\* Teacher.query.filter_by(id=teacher_id, center_id=center.id).first()
TeacherOfCenter(teacher_id, center_id) ==
    /\ Truthy(teacher_id)
    /\ Stored(teacher_id).kind = "int"
    /\ Stored(teacher_id).val \in DOMAIN teachers
    /\ teachers[Stored(teacher_id).val].center_id = center_id

\* the Schedule object the handlers build from the form before the conflict
\* loop: the ids are the strs of the form, the weekday is int(day_of_week)
Candidate(form, default_max_students, is_active) ==
    ScheduleRow(form.program_id, form.teacher_id, PyToInt(form.day_of_week),
                fromisoformat(form.start_time), fromisoformat(form.end_time),
                IF Truthy(form.max_students) THEN form.max_students.val
                ELSE default_max_students,
                is_active)

add_schedule(sess, form, commit_ok) ==
    LET gate == login_required(sess, "center")
        start_time == fromisoformat(form.start_time)
        end_time == fromisoformat(form.end_time)
        new_schedule ==
            Candidate(form, programs[Stored(form.program_id).val].max_students, TRUE)
        hit == FirstConflict(new_schedule,
                    ExistingSchedules(form.teacher_id, form.day_of_week, 0))
        Reply(code, reason, existing_id, shown) ==
            /\ resp' = ScheduleResponse("add_schedule", sess, code, reason, 0,
                                        existing_id, shown)
            /\ UNCHANGED schedules
    IN  /\ IF gate # "ok"
           THEN Reply(302, gate, 0, NoForm)
           ELSE IF ~(/\ Truthy(form.program_id) /\ Truthy(form.teacher_id)
                     /\ Truthy(form.day_of_week)
                     /\ form.start_time # "" /\ form.end_time # "")
           THEN Reply(302, "missing_fields", 0, NoForm)
           ELSE IF ~(/\ ProgramOfCenter(form.program_id, sess.profile)
                     /\ TeacherOfCenter(form.teacher_id, sess.profile))
           THEN Reply(302, "invalid_selection", 0, NoForm)
           ELSE IF start_time = ValueError \/ end_time = ValueError
           THEN Reply(200, "error", 0, NoForm)
           ELSE IF TimeGE(start_time, end_time)
           THEN Reply(302, "end_before_start", 0, NoForm)
           ELSE IF hit # 0
           THEN Reply(302, "conflict", hit, form)
           ELSE IF ~commit_ok
           THEN Reply(200, "error", 0, NoForm)
           ELSE /\ Cardinality(DOMAIN schedules) < MaxSchedules
                /\ schedules' = Insert(schedules, StoredSchedule(new_schedule))
                /\ resp' = ScheduleResponse("add_schedule", sess, 302, "success",
                                            NextId(schedules), 0, form)
        /\ UNCHANGED <<today, children, programs, teachers, enrollments>>

\* the rows a request leaves in the database when it returns without commit
\* and without rollback: db.session is removed with the request, and what
\* the handler assigned to its objects goes with it
session_remove(committed, assigned) == committed

\* the rows when the session outlives the request with what was assigned
session_kept(committed, assigned) == assigned

\* edit_schedule whose conflict rejection leaves the assigned values stored
edit_schedule_assigned_kept(sess, schedule_id, form, commit_ok) ==
    LET gate == login_required(sess, "center")
        found == /\ schedule_id \in DOMAIN schedules
                 /\ ProgramOfCenter(schedules[schedule_id].program_id, sess.profile)
        start_time == fromisoformat(form.start_time)
        end_time == fromisoformat(form.end_time)
        \* schedule.program, read after schedule.program_id was assigned
        program_found == Stored(form.program_id).val \in DOMAIN programs
        schedule ==
            Candidate(form,
                      IF program_found
                      THEN programs[Stored(form.program_id).val].max_students
                      ELSE 0,
                      form.is_active)
        hit == FirstConflict(schedule,
                    ExistingSchedules(form.teacher_id, form.day_of_week, schedule_id))
        \* the rows with the loaded one as the assignments leave it
        assigned == [schedules EXCEPT ![schedule_id] = StoredSchedule(schedule)]
        Reply(code, reason, existing_id, shown) ==
            /\ resp' = ScheduleResponse("edit_schedule", sess, code, reason,
                                        schedule_id, existing_id, shown)
            /\ UNCHANGED schedules
    IN  /\ IF gate # "ok"
           THEN Reply(302, gate, 0, NoForm)
           ELSE IF ~found
           THEN Reply(302, "schedule_not_found", 0, NoForm)
           ELSE IF start_time = ValueError \/ end_time = ValueError
           THEN Reply(200, "error", 0, NoForm)
           ELSE IF TimeGE(start_time, end_time)
           THEN Reply(302, "end_before_start", 0, NoForm)
           ELSE IF ~Truthy(form.max_students) /\ ~program_found
           THEN Reply(200, "error", 0, NoForm)
           ELSE IF hit # 0
           THEN IF ~HasProgram(hit)
                THEN Reply(200, "error", 0, NoForm)
                ELSE /\ schedules' = session_kept(schedules, assigned)
                     /\ resp' = ScheduleResponse("edit_schedule", sess, 302,
                                                 "conflict", schedule_id, hit, form)
           ELSE IF ~commit_ok
           THEN Reply(200, "error", 0, NoForm)
           ELSE /\ schedules' = assigned
                /\ resp' = ScheduleResponse("edit_schedule", sess, 302, "success",
                                            schedule_id, 0, form)
        /\ UNCHANGED <<today, children, programs, teachers, enrollments>>

edit_schedule(sess, schedule_id, form, commit_ok) ==
    LET gate == login_required(sess, "center")
        found == /\ schedule_id \in DOMAIN schedules
                 /\ ProgramOfCenter(schedules[schedule_id].program_id, sess.profile)
        start_time == fromisoformat(form.start_time)
        end_time == fromisoformat(form.end_time)
        \* schedule.program, read after schedule.program_id was assigned
        program_found == Stored(form.program_id).val \in DOMAIN programs
        schedule ==
            Candidate(form,
                      IF program_found
                      THEN programs[Stored(form.program_id).val].max_students
                      ELSE 0,
                      form.is_active)
        hit == FirstConflict(schedule,
                    ExistingSchedules(form.teacher_id, form.day_of_week, schedule_id))
        \* the rows with the loaded one as the assignments leave it
        assigned == [schedules EXCEPT ![schedule_id] = StoredSchedule(schedule)]
        Reply(code, reason, existing_id, shown) ==
            /\ resp' = ScheduleResponse("edit_schedule", sess, code, reason,
                                        schedule_id, existing_id, shown)
            /\ UNCHANGED schedules
    IN  /\ IF gate # "ok"
           THEN Reply(302, gate, 0, NoForm)
           ELSE IF ~found
           THEN Reply(302, "schedule_not_found", 0, NoForm)
           ELSE IF start_time = ValueError \/ end_time = ValueError
           THEN Reply(200, "error", 0, NoForm)
           ELSE IF TimeGE(start_time, end_time)
           THEN Reply(302, "end_before_start", 0, NoForm)
           ELSE IF ~Truthy(form.max_students) /\ ~program_found
           THEN Reply(200, "error", 0, NoForm)
           ELSE IF hit # 0
           THEN IF ~HasProgram(hit)
                THEN Reply(200, "error", 0, NoForm)
                ELSE /\ schedules' = session_remove(schedules, assigned)
                     /\ resp' = ScheduleResponse("edit_schedule", sess, 302,
                                                 "conflict", schedule_id, hit, form)
           ELSE IF ~commit_ok
           THEN Reply(200, "error", 0, NoForm)
           ELSE /\ schedules' = assigned
                /\ resp' = ScheduleResponse("edit_schedule", sess, 302, "success",
                                            schedule_id, 0, form)
        /\ UNCHANGED <<today, children, programs, teachers, enrollments>>

(***************************************************************************)
(* edit_program: the fields the eligibility checks read                    *)
(***************************************************************************)
\* int(x) if x else None
IntOrNone(x) == IF Truthy(x) THEN PyToInt(x) ELSE None

\* add_program: the fields the eligibility checks read, and the two the
\* handler requires; program_id is the id of the row added, 0 when none is
add_program(sess, name, category_id, min_age, max_age, max_students, commit_ok) ==
    LET gate == login_required(sess, "center")
        answer(code, reason, program_id) ==
            [op |-> "add_program", sess |-> sess, code |-> code, reason |-> reason,
             child_id |-> 0, program_id |-> program_id, schedule_id |-> 0,
             enrollment_id |-> 0]
    IN  /\ IF gate # "ok"
           THEN resp' = answer(302, gate, 0) /\ UNCHANGED programs
           ELSE IF name = "" \/ ~Truthy(category_id)
           THEN resp' = answer(302, "missing_fields", 0) /\ UNCHANGED programs
           ELSE IF ~commit_ok
           THEN resp' = answer(200, "error", 0) /\ UNCHANGED programs
           ELSE /\ NextId(programs) <= MaxPrograms
                /\ programs' = Insert(programs,
                        [center_id |-> sess.profile,
                         min_age |-> IntOrNone(min_age),
                         max_age |-> IntOrNone(max_age),
                         max_students |-> IF Truthy(max_students)
                                          THEN max_students.val
                                          ELSE DefaultMaxStudents])
                /\ resp' = answer(302, "success", NextId(programs))
        /\ UNCHANGED <<today, children, teachers, schedules, enrollments>>

edit_program(sess, program_id, min_age, max_age, max_students, commit_ok) ==
    LET gate == login_required(sess, "center")
        found == /\ program_id \in DOMAIN programs
                 /\ programs[program_id].center_id = sess.profile
    IN  /\ IF gate # "ok"
           THEN /\ resp' = Redirected("edit_program", sess, gate)
                /\ UNCHANGED programs
           ELSE IF ~found
           THEN /\ resp' = Response("edit_program", sess, 302, "program_not_found", 0, 0, 0)
                /\ UNCHANGED programs
           ELSE IF ~commit_ok
           THEN /\ resp' = Response("edit_program", sess, 200, "update_failed", 0, 0, 0)
                /\ UNCHANGED programs
           ELSE /\ programs' = [programs EXCEPT
                        ![program_id].min_age = IntOrNone(min_age),
                        ![program_id].max_age = IntOrNone(max_age),
                        ![program_id].max_students =
                            IF Truthy(max_students) THEN max_students.val
                            ELSE DefaultMaxStudents]
                /\ resp' = Response("edit_program", sess, 302, "success", 0, 0, 0)
        /\ UNCHANGED <<today, children, teachers, schedules, enrollments>>

(***************************************************************************)
(* The worlds the specifications start from: rows that add_child,          *)
(* add_program and add_schedule create, and no enrollment yet.             *)
(***************************************************************************)
Today == PyDate(2025, 6, 15)

ProgramRow(center_id, min_age, max_age, max_students) ==
    [center_id |-> center_id, min_age |-> min_age, max_age |-> max_age,
     max_students |-> max_students]

ChildRow(parent_id, birth_date) == [parent_id |-> parent_id, birth_date |-> birth_date]

\* one teacher of each center
Teachers0 == (1 :> [center_id |-> 1]) @@ (2 :> [center_id |-> 1]) @@ (3 :> [center_id |-> 2])

\* a program of center 1 without age bounds, and one of center 2
Programs0 ==
    (1 :> ProgramRow(1, None, None, DefaultMaxStudents))
        @@ (2 :> ProgramRow(2, None, None, DefaultMaxStudents))

\* one class of program 1, Mondays 9:00 to 10:00, for max_students children
Schedules0(max_students) ==
    1 :> ScheduleRow(PyInt(1), PyInt(1), PyInt(0), PyTime(9, 0), PyTime(10, 0),
                     max_students, TRUE)

(***************************************************************************)
(* SpecEnroll: enroll_child, cancel_enrollment and approve_enrollment,     *)
(* one request at a time, on a class of 0..MaxCapacity seats and           *)
(* MaxCapacity + 1 children of unknown birth date, the last one of them    *)
(* the child of another parent.                                            *)
(***************************************************************************)
EnrollChildIds == 1 .. (MaxCapacity + 1)

InitEnroll ==
    /\ today = Today
    /\ Accounts0
    /\ children = [c \in EnrollChildIds |->
                      ChildRow(IF c = MaxCapacity + 1 THEN 2 ELSE 1, None)]
    /\ programs = Programs0
    /\ teachers = Teachers0
    /\ \E n \in 0 .. MaxCapacity : schedules = Schedules0(n)
    /\ enrollments = <<>>
    /\ resp = NoResponse
    /\ trail = NoTrail

EnrollSessions ==
    {Anonymous, [user_role |-> "parent", profile |-> 1],
     [user_role |-> "parent", profile |-> 2], [user_role |-> "center", profile |-> 1],
     [user_role |-> "center", profile |-> 2]}

EnrollRequest ==
    \E sess \in EnrollSessions :
        \E schedule_id \in 1 .. 2 :
            \E child_id \in 1 .. (MaxCapacity + 2) :
                enroll_child(sess, schedule_id, child_id, TRUE)

CancelRequest ==
    \E sess \in EnrollSessions :
        \E enrollment_id \in 1 .. (MaxEnrollments + 1) :
            cancel_enrollment(sess, enrollment_id, TRUE)

ApproveRequest ==
    \E sess \in EnrollSessions :
        \E enrollment_id \in 1 .. (MaxEnrollments + 1) :
            approve_enrollment(sess, enrollment_id, TRUE)

NextEnroll ==
    \/ EnrollRequest /\ Follow /\ AccountsUnchanged
    \/ CancelRequest /\ Follow /\ AccountsUnchanged
    \/ ApproveRequest /\ Follow /\ AccountsUnchanged

SpecEnroll == InitEnroll /\ [][NextEnroll]_vars

(***************************************************************************)
(* SpecAge: enroll_child, cancel_enrollment and edit_program on a class of *)
(* one seat and two children of parent 1, whose birth dates are unknown,   *)
(* next year, this year, last year (its first or last day) or two years    *)
(* ago: ages -1, 0, 1, 1 and 2.                                            *)
(* edit_child replaces a stored birth date by a parsed one, or keeps it    *)
(* when the field is blank or does not parse.                              *)
(***************************************************************************)
AgeBirthDates ==
    {None, PyDate(2026, 1, 1), PyDate(2025, 6, 15), PyDate(2024, 1, 1),
     PyDate(2024, 12, 31), PyDate(2023, 6, 15)}

\* what the min_age and max_age fields of the program form submit
AgeForms == {EmptyStr, PyStr(0), PyStr(1)}

InitAge ==
    /\ today = Today
    /\ Accounts0
    /\ \E b1 \in AgeBirthDates, b2 \in AgeBirthDates :
          children = (1 :> ChildRow(1, b1)) @@ (2 :> ChildRow(1, b2))
    /\ programs = Programs0
    /\ teachers = Teachers0
    /\ schedules = Schedules0(1)
    /\ enrollments = <<>>
    /\ resp = NoResponse
    /\ trail = NoTrail

AgeSessions ==
    {Anonymous, [user_role |-> "parent", profile |-> 1],
     [user_role |-> "center", profile |-> 1]}

AgeEnrollRequest ==
    \E sess \in AgeSessions :
        \E schedule_id \in 1 .. 2 :
            \E child_id \in 1 .. 3 :
                /\ enroll_child(sess, schedule_id, child_id, TRUE)
                /\ Cardinality(DOMAIN enrollments') < MaxEnrollments

AgeCancelRequest ==
    \E sess \in AgeSessions :
        \E enrollment_id \in 1 .. MaxEnrollments :
            cancel_enrollment(sess, enrollment_id, TRUE)

EditProgramRequest ==
    \E sess \in AgeSessions :
        \E program_id \in 1 .. 2 :
            \E min_age \in AgeForms, max_age \in AgeForms :
                edit_program(sess, program_id, min_age, max_age, EmptyStr, TRUE)

EditChildRequest ==
    \E sess \in AgeSessions :
        \E child_id \in 1 .. 3 :
            \E birth_date_str \in IF login_required(sess, "parent") = "ok"
                                  THEN {"", "2023-06-15", "2025-06-15", "15.06.2023"}
                                  ELSE {""} :
                \E commit_ok \in BOOLEAN :
                    edit_child(sess, child_id, birth_date_str, commit_ok)

NextAge ==
    \/ EditChildRequest /\ Follow /\ AccountsUnchanged
    \/ AgeEnrollRequest /\ Follow /\ AccountsUnchanged
    \/ AgeCancelRequest /\ Follow /\ AccountsUnchanged
    \/ EditProgramRequest /\ Follow /\ AccountsUnchanged

SpecAge == InitAge /\ [][NextAge]_vars

(***************************************************************************)
(* SpecSched: add_schedule and edit_schedule by the account of center 1    *)
(* (and, refused, by others) for its program 1 and its teachers 1 and 2,   *)
(* on Mondays and Tuesdays, starting from no schedule.                     *)
(***************************************************************************)
\* the start and end times submitted: three classes, an empty interval, a
\* time that does not parse and a blank start time
TimeForms ==
    {<<"09:00", "10:00">>, <<"10:00", "11:00">>, <<"09:00", "10:30">>,
     <<"10:00", "10:00">>, <<"9am", "10:00">>, <<"", "10:00">>}

ScheduleForms ==
    {ScheduleForm(PyStr(1), teacher_id, day_of_week, times[1], times[2],
                  EmptyStr, is_active) :
        teacher_id \in {PyStr(1), PyStr(2)},
        day_of_week \in {PyStr(0), PyStr(1)},
        times \in TimeForms,
        is_active \in BOOLEAN}

\* the forms worth submitting in a session: any when login_required lets the
\* request through, one otherwise (the redirect does not read the form)
FormsFor(sess, forms) ==
    IF login_required(sess, "center") = "ok" THEN forms
    ELSE {CHOOSE form \in forms : TRUE}

SchedSessions ==
    {Anonymous, [user_role |-> "parent", profile |-> 1],
     [user_role |-> "center", profile |-> 1], [user_role |-> "center", profile |-> 2]}

InitSched ==
    /\ today = Today
    /\ Accounts0
    /\ children = <<>>
    /\ programs = Programs0
    /\ teachers = Teachers0
    /\ schedules = <<>>
    /\ enrollments = <<>>
    /\ resp = NoResponse
    /\ trail = NoTrail

AddScheduleRequest ==
    \E sess \in SchedSessions :
        \E form \in FormsFor(sess, {f \in ScheduleForms : f.is_active}) :
            add_schedule(sess, form, TRUE)

EditScheduleRequest ==
    \E sess \in SchedSessions :
        \E schedule_id \in 1 .. (MaxSchedules + 1) :
            \E form \in FormsFor(sess, ScheduleForms) :
                edit_schedule(sess, schedule_id, form, TRUE)

NextSched ==
    \/ AddScheduleRequest /\ UNCHANGED trail /\ AccountsUnchanged
    \/ EditScheduleRequest /\ UNCHANGED trail /\ AccountsUnchanged

SpecSched == InitSched /\ [][NextSched]_vars

(***************************************************************************)
(* SpecOutcome: every outcome of enroll_child, a failing commit included,  *)
(* with cancel_enrollment between.  The class has one seat and its program *)
(* takes ages 1 to 1; children 1 and 2 of parent 1 are of age 0, 1 or 2,   *)
(* child 3 is the child of parent 2, child 4 and schedule 2 do not exist.  *)
(* The class keeps its program and every child has a birth date; requests  *)
(* on a class whose program row is missing are part of SpecClass.          *)
(***************************************************************************)
OutcomeBirthDates == {PyDate(2025, 6, 15), PyDate(2024, 12, 31), PyDate(2023, 6, 15)}

InitOutcome ==
    /\ today = Today
    /\ Accounts0
    /\ \E b1 \in OutcomeBirthDates, b2 \in OutcomeBirthDates :
          children = (1 :> ChildRow(1, b1)) @@ (2 :> ChildRow(1, b2))
                        @@ (3 :> ChildRow(2, None))
    /\ programs = (1 :> ProgramRow(1, PyInt(1), PyInt(1), DefaultMaxStudents))
    /\ teachers = Teachers0
    /\ schedules = Schedules0(1)
    /\ enrollments = <<>>
    /\ resp = NoResponse
    /\ trail = NoTrail

OutcomeSessions == {Anonymous, [user_role |-> "parent", profile |-> 1]}

OutcomeEnrollRequest ==
    \E sess \in OutcomeSessions :
        \E schedule_id \in 1 .. 2 :
            \E child_id \in 1 .. 4 :
                \E commit_ok \in BOOLEAN :
                    enroll_child(sess, schedule_id, child_id, commit_ok)

OutcomeCancelRequest ==
    \E sess \in OutcomeSessions :
        \E enrollment_id \in 1 .. (MaxEnrollments + 1) :
            \E commit_ok \in BOOLEAN :
                cancel_enrollment(sess, enrollment_id, commit_ok)

NextOutcome ==
    \/ OutcomeEnrollRequest /\ Follow /\ AccountsUnchanged
    \/ OutcomeCancelRequest /\ Follow /\ AccountsUnchanged

SpecOutcome == InitOutcome /\ [][NextOutcome]_vars

(***************************************************************************)
(* SpecRace: two enroll_child requests of parent 1 served at the same      *)
(* time, their queries interleaved in every order.  The class has 1 to     *)
(* MaxCapacity seats, all but one taken by the first children; every       *)
(* child is a child of parent 1 and of unknown birth date.                 *)
(* The commit of a request succeeds or raises; a raise rolls the insert    *)
(* back and answers 500.                                                   *)
(***************************************************************************)
RaceRequests == 1 .. 2

InitRace ==
    /\ today = Today
    /\ users = Users0
    /\ parents = Parents0
    /\ centers = Centers0
    /\ programs = Programs0
    /\ teachers = Teachers0
    /\ \E max_students \in 1 .. MaxCapacity :
          /\ schedules = Schedules0(max_students)
          /\ children = [c \in 1 .. (max_students + 1) |-> ChildRow(1, None)]
          /\ enrollments = [e \in 1 .. (max_students - 1) |->
                               [child_id |-> e, schedule_id |-> 1, status |-> "active"]]
    /\ inflight = [r \in RaceRequests |-> IdleRequest]
    /\ resp = NoResponse
    /\ trail = NoTrail

RaceLookup ==
    \E r \in RaceRequests :
        \E sess \in {Anonymous, [user_role |-> "parent", profile |-> 1]} :
            \E schedule_id \in 1 .. 2 :
                \E child_id \in 1 .. (MaxCapacity + 2) :
                    enroll_child_lookup(r, sess, schedule_id, child_id)

RaceDuplicate == \E r \in RaceRequests : enroll_child_duplicate(r)

RaceCount == \E r \in RaceRequests : enroll_child_count(r)

RaceCommit ==
    \E r \in RaceRequests : \E commit_ok \in BOOLEAN : enroll_child_commit(r, commit_ok)

NextRace == RaceLookup \/ RaceDuplicate \/ RaceCount \/ RaceCommit

SpecRace == InitRace /\ [][NextRace]_vars

(***************************************************************************)
(* SpecDelete: delete_child, delete_program and delete_schedule among      *)
(* enroll_child and cancel_enrollment requests.  Center 1 has program 1    *)
(* with the classes 1 and 2 and program 3 without a class; parent 1 has    *)
(* the children 1 and 2, parent 2 the child 3.                             *)
(* add_program inserts a further program of the session's center, up to    *)
(* MaxPrograms rows.                                                       *)
(***************************************************************************)
InitDelete ==
    /\ today = Today
    /\ Accounts0
    /\ children = (1 :> ChildRow(1, None)) @@ (2 :> ChildRow(1, None))
                    @@ (3 :> ChildRow(2, None))
    /\ programs = Programs0 @@ (3 :> ProgramRow(1, None, None, DefaultMaxStudents))
    /\ teachers = Teachers0
    /\ schedules =
          (1 :> ScheduleRow(PyInt(1), PyInt(1), PyInt(0), PyTime(9, 0), PyTime(10, 0),
                            DefaultMaxStudents, TRUE))
            @@ (2 :> ScheduleRow(PyInt(1), PyInt(1), PyInt(1), PyTime(9, 0),
                                 PyTime(10, 0), DefaultMaxStudents, TRUE))
    /\ enrollments = <<>>
    /\ resp = NoResponse
    /\ trail = NoTrail

DeleteSessions ==
    {Anonymous, [user_role |-> "parent", profile |-> 1],
     [user_role |-> "center", profile |-> 1]}

DeleteEnrollRequest ==
    \E sess \in DeleteSessions :
        \E schedule_id \in 1 .. 2 :
            \E child_id \in 1 .. 2 :
                enroll_child(sess, schedule_id, child_id, TRUE) /\ UNCHANGED inflight

DeleteCancelRequest ==
    \E sess \in DeleteSessions :
        \E enrollment_id \in 1 .. MaxEnrollments :
            cancel_enrollment(sess, enrollment_id, TRUE) /\ UNCHANGED inflight

DeleteChildRequest ==
    \E sess \in DeleteSessions :
        \E child_id \in 1 .. 3 :
            \E commit_ok \in BOOLEAN :
                delete_child(sess, child_id, commit_ok)

DeleteProgramRequest ==
    \E sess \in DeleteSessions :
        \E program_id \in 1 .. 3 :
            \E commit_ok \in BOOLEAN :
                delete_program(sess, program_id, commit_ok)

DeleteScheduleRequest ==
    \E sess \in DeleteSessions :
        \E schedule_id \in 1 .. 3 :
            \E commit_ok \in BOOLEAN :
                delete_schedule(sess, schedule_id, commit_ok)

\* the name and category_id fields of the add_program form: both filled in,
\* or one of them blank; a request that login_required turns away submits
\* the first
ProgramForms == {<<"New", PyStr(1)>>, <<"", PyStr(1)>>, <<"New", EmptyStr>>}

AddProgramRequest ==
    \E sess \in DeleteSessions :
        \E form \in FormsFor(sess, ProgramForms) :
            \E commit_ok \in IF login_required(sess, "center") = "ok"
                             THEN BOOLEAN ELSE {TRUE} :
                add_program(sess, form[1], form[2], PyStr(1), EmptyStr, EmptyStr,
                            commit_ok)

NextDelete ==
    \/ AddProgramRequest /\ UNCHANGED trail /\ AccountsUnchanged
    \/ DeleteEnrollRequest /\ UNCHANGED <<users, parents, centers, trail>>
    \/ DeleteCancelRequest /\ UNCHANGED <<users, parents, centers, trail>>
    \/ DeleteChildRequest /\ UNCHANGED trail
    \/ DeleteProgramRequest /\ UNCHANGED trail
    \/ DeleteScheduleRequest /\ UNCHANGED trail

SpecDelete == InitDelete /\ [][NextDelete]_vars

(***************************************************************************)
(* SpecEdit: edit_schedule alone, on the two classes of center 1: teacher  *)
(* 1 on Mondays from 9:00 to 10:00 and teacher 2 on Tuesdays from 10:00 to *)
(* 11:00.  Commits may fail.  The teacher_id of a form is the id of a      *)
(* teacher or a str that is no number: edit_schedule looks no teacher up,  *)
(* the column keeps such a str as text, and the next form with the same    *)
(* str meets it in the conflict loop as an equal teacher_id.               *)
(***************************************************************************)
EditForms ==
    {ScheduleForm(PyStr(1), teacher_id, day_of_week, times[1], times[2],
                  EmptyStr, is_active) :
        teacher_id \in {PyStr(1), PyStr(2), PyWord(1)},
        day_of_week \in {PyStr(0), PyStr(1)},
        times \in TimeForms,
        is_active \in BOOLEAN}

InitEdit ==
    /\ today = Today
    /\ Accounts0
    /\ children = <<>>
    /\ programs = Programs0
    /\ teachers = Teachers0
    /\ schedules =
          (1 :> ScheduleRow(PyInt(1), PyInt(1), PyInt(0), PyTime(9, 0), PyTime(10, 0),
                            DefaultMaxStudents, TRUE))
            @@ (2 :> ScheduleRow(PyInt(1), PyInt(2), PyInt(1), PyTime(10, 0),
                                 PyTime(11, 0), DefaultMaxStudents, TRUE))
    /\ enrollments = <<>>
    /\ resp = NoResponse
    /\ trail = NoTrail

EditSessions == {Anonymous, [user_role |-> "center", profile |-> 1]}

EditOnlyRequest ==
    \E sess \in EditSessions :
        \E schedule_id \in 1 .. 3 :
            \E form \in FormsFor(sess, EditForms) :
                \E commit_ok \in BOOLEAN :
                    edit_schedule(sess, schedule_id, form, commit_ok)

NextEdit == EditOnlyRequest /\ UNCHANGED trail /\ AccountsUnchanged

SpecEdit == InitEdit /\ [][NextEdit]_vars

(***************************************************************************)
(* SpecRegister: registrations, in any order, after the four accounts of   *)
(* Users0, with emails that are new, registered already, or blank, and     *)
(* invite codes in either case, of a center or of none.                    *)
(* register_center is two steps, the email check and, after the geocoder   *)
(* has answered, the inserts; other registrations run in between.          *)
(***************************************************************************)
RegisterEmails == {"", "p1@kidfit.kz", "c1@kidfit.kz", "t1@kidfit.kz", "t2@kidfit.kz"}

\* what secrets.token_hex(4).upper() may draw
Tokens == {"A1B2C3D4", "FFFFFFFF", "12345678"}

\* the codes a teacher may type
TypedCodes == {"", "A1B2C3D4", "a1b2c3d4", "A1b2c3D4", "0f9e8d7c", "ffffffff", "12345678"}

\* the register_center requests that can be waiting for the geocoder at once
GeocodeRequests == 1 .. 2

InitRegister ==
    /\ today = Today
    /\ users = Users0
    /\ parents = Parents0
    /\ centers = Centers0
    /\ inflight = [r \in GeocodeRequests |-> IdleRegistration]
    /\ children = <<>>
    /\ programs = <<>>
    /\ teachers = <<>>
    /\ schedules = <<>>
    /\ enrollments = <<>>
    /\ resp = NoResponse
    /\ trail = NoTrail

RegisterParentRequest ==
    \E email \in RegisterEmails : \E commit_ok \in BOOLEAN :
        register_parent(email, commit_ok)

RegisterCenterCheck ==
    \E r \in GeocodeRequests : \E email \in RegisterEmails :
        register_center_check(r, email)

RegisterCenterInsert ==
    \E r \in GeocodeRequests : \E commit_ok \in BOOLEAN :
        \E first \in Tokens : \E second \in Tokens :
            /\ \E t \in {first, second} :
                  \A c \in DOMAIN centers : centers[c].invite_code # t
            /\ register_center_insert(r, <<first, second>>, commit_ok)

RegisterTeacherRequest ==
    \E email \in RegisterEmails : \E invite_code \in TypedCodes :
        \E commit_ok \in BOOLEAN :
            register_teacher(email, invite_code, commit_ok)

RegisterFrame ==
    UNCHANGED <<today, children, programs, schedules, enrollments, trail>>

NextRegister ==
    \/ RegisterParentRequest /\ RegisterFrame /\ UNCHANGED inflight
    \/ RegisterCenterCheck /\ RegisterFrame
    \/ RegisterCenterInsert /\ RegisterFrame
    \/ RegisterTeacherRequest /\ RegisterFrame /\ UNCHANGED inflight

SpecRegister == InitRegister /\ [][NextRegister]_vars

(***************************************************************************)
(* SpecClass: the class of SpecEnroll with enroll_child, cancel_enrollment *)
(* and approve_enrollment, and edit_schedule by the centers.  The edit     *)
(* form keeps teacher, weekday and times and submits program 1 or the id   *)
(* of no program, and max_students blank, 0 or MaxCapacity.                *)
(***************************************************************************)
ClassForms ==
    {ScheduleForm(program_id, PyStr(1), PyStr(0), "09:00", "10:00", max_students, TRUE) :
        program_id \in {PyStr(1), PyStr(9)},
        max_students \in {EmptyStr, PyStr(0), PyStr(MaxCapacity)}}

InitClass == InitEnroll

ClassEditRequest ==
    \E sess \in EnrollSessions :
        \E schedule_id \in 1 .. 2 :
            \E form \in FormsFor(sess, ClassForms) :
                edit_schedule(sess, schedule_id, form, TRUE)

NextClass ==
    \/ EnrollRequest /\ Follow /\ AccountsUnchanged
    \/ CancelRequest /\ Follow /\ AccountsUnchanged
    \/ ApproveRequest /\ Follow /\ AccountsUnchanged
    \/ ClassEditRequest /\ Follow /\ AccountsUnchanged

SpecClass == InitClass /\ [][NextClass]_vars

(***************************************************************************)
(* SpecAvailable: available_programs beside enroll_child and               *)
(* cancel_enrollment.  Program 1 has min_age and max_age unset or 1, and   *)
(* two classes of MaxCapacity seats, the second one inactive; child 1 has  *)
(* no birth date or is of age 0, 1 or 2, child 2 is its sibling of unknown *)
(* birth date, child 3 the child of parent 2.                              *)
(***************************************************************************)
AvailableBirthDates == {None, PyDate(2025, 6, 15), PyDate(2024, 12, 31), PyDate(2023, 6, 15)}

InitAvailable ==
    /\ today = Today
    /\ Accounts0
    /\ \E b \in AvailableBirthDates :
          children = (1 :> ChildRow(1, b)) @@ (2 :> ChildRow(1, None))
                        @@ (3 :> ChildRow(2, None))
    /\ \E min_age \in {None, PyInt(1)}, max_age \in {None, PyInt(1)} :
          programs = (1 :> ProgramRow(1, min_age, max_age, DefaultMaxStudents))
                        @@ (2 :> ProgramRow(2, None, None, DefaultMaxStudents))
    /\ teachers = Teachers0
    /\ schedules =
          (1 :> ScheduleRow(PyInt(1), PyInt(1), PyInt(0), PyTime(9, 0), PyTime(10, 0),
                            MaxCapacity, TRUE))
          @@ (2 :> ScheduleRow(PyInt(1), PyInt(1), PyInt(1), PyTime(9, 0), PyTime(10, 0),
                               MaxCapacity, FALSE))
    /\ enrollments = <<>>
    /\ resp = NoResponse
    /\ trail = NoTrail

AvailableSessions ==
    {Anonymous, [user_role |-> "parent", profile |-> 1],
     [user_role |-> "center", profile |-> 1]}

AvailableEnrollRequest ==
    \E sess \in AvailableSessions :
        \E schedule_id \in 1 .. 3 :
            \E child_id \in 1 .. 3 :
                enroll_child(sess, schedule_id, child_id, TRUE)

AvailableCancelRequest ==
    \E sess \in AvailableSessions :
        \E enrollment_id \in 1 .. MaxEnrollments :
            cancel_enrollment(sess, enrollment_id, TRUE)

AvailableProgramsRequest ==
    \E sess \in AvailableSessions :
        \E child_id \in 1 .. 4 :
            available_programs(sess, child_id)

NextAvailable ==
    \/ AvailableEnrollRequest /\ Follow /\ AccountsUnchanged
    \/ AvailableCancelRequest /\ Follow /\ AccountsUnchanged
    \/ AvailableProgramsRequest /\ Follow /\ AccountsUnchanged

SpecAvailable == InitAvailable /\ [][NextAvailable]_vars

(***************************************************************************)
(* SpecOwner: add_schedule and edit_schedule by the two centers.  The      *)
(* forms name program 1 or 2 and teacher 1 or 3 (the first of each belongs *)
(* to center 1, the second to center 2), Mondays, and times with           *)
(* start < end, start = end and start > end.                               *)
(***************************************************************************)
OwnerTimes ==
    {<<"09:00", "10:00">>, <<"09:00", "10:30">>, <<"10:00", "10:00">>,
     <<"10:30", "09:00">>}

OwnerForms ==
    {ScheduleForm(program_id, teacher_id, PyStr(0), times[1], times[2], EmptyStr, TRUE) :
        program_id \in {PyStr(1), PyStr(2)},
        teacher_id \in {PyStr(1), PyStr(3)},
        times \in OwnerTimes}

OwnerSessions ==
    {Anonymous, [user_role |-> "center", profile |-> 1],
     [user_role |-> "center", profile |-> 2]}

OwnerAddRequest ==
    \E sess \in OwnerSessions :
        \E form \in FormsFor(sess, OwnerForms) :
            add_schedule(sess, form, TRUE)

OwnerEditRequest ==
    \E sess \in OwnerSessions :
        \E schedule_id \in 1 .. (MaxSchedules + 1) :
            \E form \in FormsFor(sess, OwnerForms) :
                edit_schedule(sess, schedule_id, form, TRUE)

NextOwner ==
    \/ OwnerAddRequest /\ UNCHANGED trail /\ AccountsUnchanged
    \/ OwnerEditRequest /\ UNCHANGED trail /\ AccountsUnchanged

SpecOwner == InitSched /\ [][NextOwner]_vars

(***************************************************************************)
(* SpecConflict: Schedule.conflicts_with on every pair of Schedule rows    *)
(* of two teachers, two weekdays and start and end times among 9:00,       *)
(* 10:00, 10:30 and 11:00.  schedules holds the pair, resp the call made   *)
(* last and its result.                                                    *)
(***************************************************************************)
Times == {PyTime(9, 0), PyTime(10, 0), PyTime(10, 30), PyTime(11, 0)}

ScheduleObjects ==
    {ScheduleRow(PyInt(1), PyInt(teacher_id), PyInt(day_of_week), start_time,
                 end_time, DefaultMaxStudents, TRUE) :
        teacher_id \in {1, 2}, day_of_week \in {0, 1},
        start_time \in Times, end_time \in Times}

InitConflict ==
    /\ today = Today
    /\ Accounts0
    /\ children = <<>>
    /\ programs = Programs0
    /\ teachers = Teachers0
    /\ \E A \in ScheduleObjects, B \in ScheduleObjects :
          schedules = (1 :> A) @@ (2 :> B)
    /\ enrollments = <<>>
    /\ resp = NoResponse
    /\ trail = NoTrail

CallConflictsWith ==
    \E self \in DOMAIN schedules, other \in DOMAIN schedules :
        /\ resp' = [op |-> "conflicts_with", self |-> self, other |-> other,
                    result |-> conflicts_with(schedules[self], schedules[other])]
        /\ UNCHANGED <<today, children, programs, teachers, schedules,
                       enrollments, trail>>
        /\ AccountsUnchanged

SpecConflict == InitConflict /\ [][CallConflictsWith]_vars

(***************************************************************************)
(* Properties of the enrollment handlers                                   *)
(***************************************************************************)
\* the request answered by resp' passed login_required and the lookups of
\* enroll_child in the state before it
EnrollLookupsPass ==
    /\ resp'.op = "enroll_child"
    /\ login_required(resp'.sess, "parent") = "ok"
    /\ resp'.schedule_id \in DOMAIN schedules
    /\ resp'.child_id \in DOMAIN children
    /\ children[resp'.child_id].parent_id = resp'.sess.profile

\* ... and the child of the request is eligible: no active enrollment on the
\* schedule, and the age check passes
EnrollEligible ==
    /\ EnrollLookupsPass
    /\ ActivePair(resp'.child_id, resp'.schedule_id) = {}
    /\ AgeCheck(today, children[resp'.child_id],
                programs[schedules[resp'.schedule_id].program_id.val]) = "ok"

\* C1: in every state reached by enroll_child, cancel_enrollment and
\* approve_enrollment requests, one at a time, no (child, schedule) pair has
\* more than one enrollment whose status is 'active'.
C1_OneActivePerPair ==
    \A c \in DOMAIN children : \A s \in DOMAIN schedules :
        Cardinality(ActivePair(c, s)) <= 1

\* C6: enroll_child of an eligible child is rejected with the class-full
\* reason exactly when the schedule's active enrollments number at least
\* max_students, and otherwise succeeds and adds one active enrollment; so a
\* class of N seats takes N children and rejects the next.
C6_CapacityRule ==
    [][/\ EnrollEligible =>
            IF ActiveCount(resp'.schedule_id)
                    >= schedules[resp'.schedule_id].max_students
            THEN resp'.reason = "class_full" /\ enrollments' = enrollments
            ELSE /\ resp'.reason = "success"
                 /\ enrollments' = Insert(enrollments,
                        [child_id |-> resp'.child_id,
                         schedule_id |-> resp'.schedule_id, status |-> "active"])
       /\ (resp'.op = "enroll_child" /\ resp'.reason = "class_full") =>
            /\ resp'.schedule_id \in DOMAIN schedules
            /\ ActiveCount(resp'.schedule_id)
                    >= schedules[resp'.schedule_id].max_students]_vars

\* a class of MaxCapacity >= 1 seats, filled by that many successful
\* enrollments, has just rejected one more child as full
C6_Witness ==
    /\ resp.op = "enroll_child"
    /\ resp.reason = "class_full"
    /\ schedules[resp.schedule_id].max_students = MaxCapacity
    /\ MaxCapacity >= 1
    /\ ActiveCount(resp.schedule_id) = MaxCapacity
    /\ \A e \in DOMAIN enrollments : enrollments[e].status = "active"
    /\ ActivePair(resp.child_id, resp.schedule_id) = {}

\* the rows of the pair with the given status, read off the table itself
RowsOfPair(table, child_id, schedule_id, status) ==
    {e \in DOMAIN table :
        /\ table[e].child_id = child_id
        /\ table[e].schedule_id = schedule_id
        /\ table[e].status = status}

\* C7: when enroll_child has succeeded, cancel_enrollment has then cancelled
\* that enrollment, and the parent then asks to enroll the same child on the
\* same schedule, the request succeeds, the cancelled row stays cancelled and
\* the pair has exactly one active enrollment; and whenever the pair has a
\* cancelled row, "already enrolled" is reported only if it also has an
\* active one.
C7_ReenrollAfterCancel ==
    [][/\ (/\ trail.stage = "cancelled"
           /\ EnrollLookupsPass
           /\ resp'.child_id = enrollments[trail.enrollment_id].child_id
           /\ resp'.schedule_id = enrollments[trail.enrollment_id].schedule_id)
            => /\ resp'.reason = "success"
               /\ enrollments'[trail.enrollment_id].status = "cancelled"
               /\ Cardinality(RowsOfPair(enrollments', resp'.child_id,
                                         resp'.schedule_id, "active")) = 1
       /\ (/\ EnrollLookupsPass
           /\ RowsOfPair(enrollments, resp'.child_id, resp'.schedule_id,
                         "cancelled") # {})
            => (resp'.reason = "already_enrolled"
                    <=> RowsOfPair(enrollments, resp'.child_id,
                                   resp'.schedule_id, "active") # {})]_vars

\* the re-enrollment has just succeeded on a class of one seat: the pair has
\* its cancelled row and one active row
C7_Witness ==
    /\ resp.op = "enroll_child"
    /\ resp.reason = "success"
    /\ schedules[resp.schedule_id].max_students = 1
    /\ RowsOfPair(enrollments, resp.child_id, resp.schedule_id, "cancelled")
            = {resp.enrollment_id - 1}
    /\ RowsOfPair(enrollments, resp.child_id, resp.schedule_id, "active")
            = {resp.enrollment_id}

\* the program of the schedule of the request answered by resp'
RequestProgram == programs[schedules[resp'.schedule_id].program_id.val]

\* today.year - birth year of the child of the request answered by resp'
RequestYears == today.year - children[resp'.child_id].birth_date.year

\* C5: enroll_child reports the first failing check in the order duplicate,
\* age, capacity: "already enrolled" whenever the child is active on the
\* schedule, whatever its age and the seats left; the age reason whenever the
\* age check fails and the child is not active, whatever the seats left.
C5_FirstFailureWins ==
    [][EnrollLookupsPass =>
        resp'.reason =
            IF RowsOfPair(enrollments, resp'.child_id, resp'.schedule_id,
                          "active") # {}
            THEN "already_enrolled"
            ELSE IF AgeCheck(today, children[resp'.child_id], RequestProgram) # "ok"
            THEN AgeCheck(today, children[resp'.child_id], RequestProgram)
            ELSE IF ActiveCount(resp'.schedule_id)
                        >= schedules[resp'.schedule_id].max_students
            THEN "class_full"
            ELSE "success"]_vars

\* "already enrolled" was reported for a child that is active on a full class
\* and whose age fails the age check
C5_Witness ==
    /\ resp.op = "enroll_child"
    /\ resp.reason = "already_enrolled"
    /\ ActiveCount(resp.schedule_id) >= schedules[resp.schedule_id].max_students
    /\ AgeCheck(today, children[resp.child_id],
                programs[schedules[resp.schedule_id].program_id.val]) # "ok"

\* C8: for a child of known birth date and a program whose min_age is not
\* None, the duplicate and capacity checks passing, enroll_child rejects as
\* too young exactly when today.year - birth year < min_age.
C8_TooYoungRule ==
    [][(/\ EnrollLookupsPass
        /\ RowsOfPair(enrollments, resp'.child_id, resp'.schedule_id, "active") = {}
        /\ ActiveCount(resp'.schedule_id) < schedules[resp'.schedule_id].max_students
        /\ children[resp'.child_id].birth_date # None
        /\ RequestProgram.min_age # None)
        => (resp'.reason = "too_young" <=> RequestYears < RequestProgram.min_age.val)]_vars

\* C9: for a child of known birth date that is not too young and a program
\* whose max_age is not None, whatever integer it is, enroll_child rejects as
\* too old exactly when today.year - birth year > max_age.
C9_TooOldRule ==
    [][(/\ EnrollLookupsPass
        /\ RowsOfPair(enrollments, resp'.child_id, resp'.schedule_id, "active") = {}
        /\ children[resp'.child_id].birth_date # None
        /\ ~(/\ RequestProgram.min_age # None
             /\ RequestYears < RequestProgram.min_age.val)
        /\ RequestProgram.max_age # None)
        => (resp'.reason = "too_old" <=> RequestYears > RequestProgram.max_age.val)]_vars

\* C10: the age check of enroll_child depends on the birth date through its
\* year alone: two children born in the same year get the same age decision
\* for every schedule, and a rejection for age is one that
\* today.year - birth year, compared with the bound, gives.
C10_AgeByYearOnly ==
    /\ \A c1 \in DOMAIN children, c2 \in DOMAIN children : \A s \in DOMAIN schedules :
          (/\ children[c1].birth_date # None
           /\ children[c2].birth_date # None
           /\ children[c1].birth_date.year = children[c2].birth_date.year)
            => AgeCheck(today, children[c1], programs[schedules[s].program_id.val])
                = AgeCheck(today, children[c2], programs[schedules[s].program_id.val])
    /\ (resp.op = "enroll_child" /\ resp.reason = "too_young")
            => today.year - children[resp.child_id].birth_date.year
                < programs[schedules[resp.schedule_id].program_id.val].min_age.val
    /\ (resp.op = "enroll_child" /\ resp.reason = "too_old")
            => today.year - children[resp.child_id].birth_date.year
                > programs[schedules[resp.schedule_id].program_id.val].max_age.val
    /\ (/\ resp.op = "enroll_child"
        /\ resp.reason \in {"class_full", "success"}
        /\ children[resp.child_id].birth_date # None)
            => LET program == programs[schedules[resp.schedule_id].program_id.val]
                   years == today.year - children[resp.child_id].birth_date.year
               IN  /\ Truthy(program.min_age) => years >= program.min_age.val
                   /\ Truthy(program.max_age) => years <= program.max_age.val

\* a child born on the last day of last year was accepted by the age check of
\* a program of min_age 1, as its sibling born on the first day of that year
\* is: the birthday is still to come for one and past for the other
C10_Witness ==
    /\ children[1].birth_date = PyDate(2024, 1, 1)
    /\ children[2].birth_date = PyDate(2024, 12, 31)
    /\ programs[1].min_age = PyInt(1)
    /\ resp.op = "enroll_child"
    /\ resp.reason = "success"
    /\ resp.child_id = 2

(***************************************************************************)
(* Properties of the schedule conflict check                               *)
(***************************************************************************)
Minutes(t) == t.hour * 60 + t.minute

\* the half-open intervals [start, end) of a and b overlap
Overlap(a, b) ==
    /\ Minutes(a.start_time) < Minutes(b.end_time)
    /\ Minutes(b.start_time) < Minutes(a.end_time)

\* C2: A.conflicts_with(B) is true if and only if A and B have the same
\* teacher, the same weekday and overlapping half-open intervals; 9:00-10:00
\* and 10:00-11:00 do not conflict, 9:00-10:30 and 10:00-11:00 do.
C2_ConflictRule ==
    resp.op = "conflicts_with" =>
        LET A == schedules[resp.self]
            B == schedules[resp.other]
        IN  /\ resp.result <=> (/\ A.teacher_id = B.teacher_id
                                /\ A.day_of_week = B.day_of_week
                                /\ Overlap(A, B))
            /\ (/\ A.teacher_id = B.teacher_id
                /\ A.day_of_week = B.day_of_week
                /\ A.start_time = PyTime(9, 0) /\ A.end_time = PyTime(10, 0)
                /\ B.start_time = PyTime(10, 0) /\ B.end_time = PyTime(11, 0))
                    => ~resp.result
            /\ (/\ A.teacher_id = B.teacher_id
                /\ A.day_of_week = B.day_of_week
                /\ A.start_time = PyTime(9, 0) /\ A.end_time = PyTime(10, 30)
                /\ B.start_time = PyTime(10, 0) /\ B.end_time = PyTime(11, 0))
                    => resp.result

\* conflicts_with has answered for 9:00-10:00 and 10:00-11:00 of one teacher
\* on one weekday
C2_Witness ==
    /\ resp.op = "conflicts_with"
    /\ resp.self # resp.other
    /\ schedules[resp.self].teacher_id = schedules[resp.other].teacher_id
    /\ schedules[resp.self].day_of_week = schedules[resp.other].day_of_week
    /\ schedules[resp.self].start_time = PyTime(9, 0)
    /\ schedules[resp.self].end_time = PyTime(10, 0)
    /\ schedules[resp.other].start_time = PyTime(10, 0)
    /\ schedules[resp.other].end_time = PyTime(11, 0)
    /\ ~resp.result

\* the active schedules, other than skip_id, of the teacher and on the
\* weekday that the form names, whose interval overlaps the form's
Colliding(form, skip_id) ==
    {e \in DOMAIN schedules \ {skip_id} :
        /\ schedules[e].is_active
        /\ schedules[e].teacher_id.val = form.teacher_id.val
        /\ schedules[e].day_of_week.val = form.day_of_week.val
        /\ Overlap(schedules[e],
                   [start_time |-> fromisoformat(form.start_time),
                    end_time |-> fromisoformat(form.end_time)])}

\* the request answered by resp' reached the conflict loop: its form was
\* complete, named a program and a teacher the handler accepts, and had
\* start_time < end_time
ReachedConflictLoop(op) == resp'.op = op /\ resp'.form # NoForm

\* C3: add_schedule, given complete and valid input, stores the new schedule
\* if and only if no active schedule of the submitted teacher on the
\* submitted weekday overlaps it; otherwise it stores nothing and reports a
\* colliding schedule.
C3_AddIffNoOverlap ==
    [][ReachedConflictLoop("add_schedule") =>
        IF Colliding(resp'.form, 0) = {}
        THEN /\ resp'.reason = "success"
             /\ DOMAIN schedules' = DOMAIN schedules \cup {resp'.schedule_id}
        ELSE /\ resp'.reason = "conflict"
             /\ resp'.existing_id \in Colliding(resp'.form, 0)
             /\ schedules' = schedules]_vars

\* C4: edit_schedule with start_time < end_time commits if and only if no
\* other active schedule of the submitted teacher on the submitted weekday
\* overlaps the submitted interval; the edited schedule is not compared with
\* itself.
C4_EditIffNoOverlap ==
    [][ReachedConflictLoop("edit_schedule") =>
        IF Colliding(resp'.form, resp'.schedule_id) = {}
        THEN resp'.reason = "success"
        ELSE /\ resp'.reason = "conflict"
             /\ schedules' = schedules]_vars

(***************************************************************************)
(* Properties of the outcomes of enroll_child                              *)
(***************************************************************************)
\* C11: an enroll_child request either is rejected and leaves the enrollment
\* rows and their statuses as they were, or succeeds and adds exactly one
\* row, active, of the requested child and schedule, changing no other row;
\* a failing commit is rolled back and leaves the rows as they were.
\* Every answer other than success counts as a rejection, the 500 of a
\* failure inside the handler's try block included.
C11_EnrollFrame ==
    [][resp'.op = "enroll_child" =>
        /\ UNCHANGED <<today, children, programs, teachers, schedules>>
        /\ IF resp'.reason = "success"
           THEN /\ resp'.code = 200
                /\ resp'.enrollment_id \notin DOMAIN enrollments
                /\ DOMAIN enrollments' = DOMAIN enrollments \cup {resp'.enrollment_id}
                /\ enrollments'[resp'.enrollment_id]
                        = [child_id |-> resp'.child_id,
                           schedule_id |-> resp'.schedule_id, status |-> "active"]
                /\ \A e \in DOMAIN enrollments : enrollments'[e] = enrollments[e]
           ELSE /\ resp'.code # 200
                /\ enrollments' = enrollments]_vars

\* the check of enroll_child that fails first for the request answered by
\* resp', read off the tables of the state before it; "none" when all pass
FailingCheck ==
    IF resp'.schedule_id \notin DOMAIN schedules THEN "schedule_not_found"
    ELSE IF resp'.child_id \notin DOMAIN children THEN "child_not_found"
    ELSE IF children[resp'.child_id].parent_id # resp'.sess.profile
         THEN "child_not_found"
    ELSE IF RowsOfPair(enrollments, resp'.child_id, resp'.schedule_id, "active") # {}
         THEN "already_enrolled"
    ELSE IF /\ children[resp'.child_id].birth_date # None
            /\ Truthy(RequestProgram.min_age)
            /\ RequestYears < RequestProgram.min_age.val
         THEN "too_young"
    ELSE IF /\ children[resp'.child_id].birth_date # None
            /\ Truthy(RequestProgram.max_age)
            /\ RequestYears > RequestProgram.max_age.val
         THEN "too_old"
    ELSE IF ActiveCount(resp'.schedule_id) >= schedules[resp'.schedule_id].max_students
         THEN "class_full"
    ELSE "none"

FailureReasons ==
    {"schedule_not_found", "child_not_found", "already_enrolled", "too_young",
     "too_old", "class_full"}

\* C12: each failure of enroll_child - schedule not found, child not found
\* or of another parent, already enrolled, too young, too old, class full -
\* is answered with an error status and an error text that no other failure
\* and no success carries, and changes nothing.
C12_DistinctReasons ==
    [][(/\ resp'.op = "enroll_child"
        /\ login_required(resp'.sess, "parent") = "ok"
        /\ FailingCheck # "none")
        => /\ resp'.reason = FailingCheck
           /\ resp'.code \in {400, 404}
           /\ EnrollError(resp'.reason) # EnrollError("success")
           /\ \A other \in FailureReasons \ {FailingCheck} :
                 EnrollError(resp'.reason) # EnrollError(other)
           /\ enrollments' = enrollments]_vars

\* the child of another parent has just been answered "Child not found"
C12_Witness ==
    /\ resp.op = "enroll_child"
    /\ resp.child_id \in DOMAIN children
    /\ children[resp.child_id].parent_id # resp.sess.profile
    /\ resp.schedule_id \in DOMAIN schedules
    /\ resp.code = 404
    /\ EnrollError(resp.reason) = "Child not found"

(***************************************************************************)
(* Properties of enroll_child requests served at the same time             *)
(***************************************************************************)
\* the two requests are for different children on schedule s, and each has
\* read the count of active enrollments while one seat was free - so both
\* read it before either committed
BothReadOneFreeSeat(s) ==
    /\ \A r \in RaceRequests :
          /\ inflight[r].pc \in {"commit", "done"}
          /\ inflight[r].schedule_id = s
          /\ inflight[r].current_enrollments = schedules[s].max_students - 1
    /\ inflight[1].child_id # inflight[2].child_id

\* C13: when two enroll_child requests for different eligible children on a
\* schedule with one free seat both read the count of active enrollments
\* before either commits, neither is rejected by a check of the handler, and
\* once both have completed with their commits gone through both have
\* succeeded and the schedule has max_students + 1 active enrollments.
C13_RaceOvercommits ==
    \A s \in DOMAIN schedules :
        BothReadOneFreeSeat(s) =>
            /\ \A r \in RaceRequests :
                    inflight[r].reason \in {"none", "success", "enrollment_failed"}
            /\ (\A r \in RaceRequests :
                    inflight[r].pc = "done" /\ inflight[r].reason # "enrollment_failed") =>
                  /\ \A r \in RaceRequests :
                        /\ inflight[r].reason = "success"
                        /\ Cardinality(RowsOfPair(enrollments, inflight[r].child_id,
                                                  s, "active")) = 1
                  /\ ActiveCount(s) = schedules[s].max_students + 1

\* both requests have committed and the class holds one child more than it
\* has seats
C13_Witness ==
    /\ BothReadOneFreeSeat(1)
    /\ \A r \in RaceRequests : inflight[r].pc = "done" /\ inflight[r].reason = "success"
    /\ ActiveCount(1) = schedules[1].max_students + 1

(***************************************************************************)
(* Properties of the delete handlers                                       *)
(***************************************************************************)
\* the active enrollments that refer to the child, to the schedule, or to a
\* schedule of the program, read off the tables
ActiveRowsOfChild(child_id) ==
    {e \in DOMAIN enrollments :
        enrollments[e].child_id = child_id /\ enrollments[e].status = "active"}

ActiveRowsOfSchedule(schedule_id) ==
    {e \in DOMAIN enrollments :
        enrollments[e].schedule_id = schedule_id /\ enrollments[e].status = "active"}

ActiveRowsOfProgram(program_id) ==
    {e \in DOMAIN enrollments :
        /\ enrollments[e].status = "active"
        /\ \E i \in DOMAIN schedules :
              i = enrollments[e].schedule_id /\ schedules[i].program_id.val = program_id}

\* C14: delete_child, delete_program and delete_schedule, asked by the owner
\* of the row, refuse and change nothing when an active enrollment refers to
\* the child, to a schedule of the program or to the schedule; a row
\* disappears only in a request for it with no such active enrollment, and
\* no other row changes.
C14_DeleteGuard ==
    [][/\ (/\ resp'.op = "delete_child"
           /\ login_required(resp'.sess, "parent") = "ok"
           /\ resp'.child_id \in DOMAIN children
           /\ children[resp'.child_id].parent_id = resp'.sess.profile
           /\ ActiveRowsOfChild(resp'.child_id) # {})
            => resp'.reason = "active_enrollments" /\ children' = children
       /\ (/\ resp'.op = "delete_program"
           /\ login_required(resp'.sess, "center") = "ok"
           /\ resp'.program_id \in DOMAIN programs
           /\ programs[resp'.program_id].center_id = resp'.sess.profile
           /\ ActiveRowsOfProgram(resp'.program_id) # {})
            => resp'.reason = "active_enrollments" /\ programs' = programs
       /\ (/\ resp'.op = "delete_schedule"
           /\ login_required(resp'.sess, "center") = "ok"
           /\ resp'.schedule_id \in DOMAIN schedules
           /\ programs[schedules[resp'.schedule_id].program_id.val].center_id
                  = resp'.sess.profile
           /\ ActiveRowsOfSchedule(resp'.schedule_id) # {})
            => resp'.reason = "active_enrollments" /\ schedules' = schedules
       /\ resp'.op \in {"delete_child", "delete_program", "delete_schedule"}
            => enrollments' = enrollments
       /\ children' # children
            => /\ resp'.op = "delete_child"
               /\ ActiveRowsOfChild(resp'.child_id) = {}
               /\ children' = RemoveRow(children, resp'.child_id)
               /\ programs' = programs /\ schedules' = schedules
       /\ resp'.op = "add_program"
            => \A p \in DOMAIN programs :
                  p \in DOMAIN programs' /\ programs'[p] = programs[p]
       /\ (programs' # programs /\ resp'.op # "add_program")
            => /\ resp'.op = "delete_program"
               /\ ActiveRowsOfProgram(resp'.program_id) = {}
               /\ programs' = RemoveRow(programs, resp'.program_id)
               /\ children' = children /\ schedules' = schedules
       /\ schedules' # schedules
            => /\ resp'.op = "delete_schedule"
               /\ ActiveRowsOfSchedule(resp'.schedule_id) = {}
               /\ schedules' = RemoveRow(schedules, resp'.schedule_id)
               /\ children' = children /\ programs' = programs]_vars

\* delete_program has just refused program 1, whose class 2 has an active
\* enrollment while its class 1 has none
C14_Witness ==
    /\ resp.op = "delete_program"
    /\ resp.program_id = 1
    /\ resp.reason = "active_enrollments"
    /\ ActiveCount(1) = 0
    /\ ActiveCount(2) > 0
    /\ 1 \in DOMAIN programs

(***************************************************************************)
(* Properties of rejected edits                                            *)
(***************************************************************************)
\* C15: an edit_schedule request that is rejected - because the submitted
\* end time is not after the start time, or because of a conflict - leaves
\* every stored schedule, the edited one included, with all its previous
\* field values; so does every other request that does not end in success.
C15_RejectedEditKeepsRow ==
    [][resp'.op = "edit_schedule" =>
        /\ (/\ login_required(resp'.sess, "center") = "ok"
            /\ resp'.schedule_id \in DOMAIN schedules
            /\ resp'.reason \in {"end_before_start", "conflict"})
            => /\ resp'.schedule_id \in DOMAIN schedules'
               /\ schedules'[resp'.schedule_id] = schedules[resp'.schedule_id]
        /\ resp'.reason \in {"end_before_start", "conflict"} => schedules' = schedules
        /\ resp'.reason # "success" => schedules' = schedules]_vars

\* an edit of class 1 has just been rejected for its conflict with class 2,
\* which an earlier edit gave the same teacher_id and weekday: the form was
\* assigned to the loaded row before the conflict loop, it differs from the
\* stored row in teacher, end time and is_active, and class 1 is stored with
\* the values it had
C15_Witness ==
    /\ resp.op = "edit_schedule"
    /\ resp.reason = "conflict"
    /\ resp.schedule_id = 1
    /\ resp.existing_id = 2
    /\ resp.form.teacher_id = PyWord(1)
    /\ resp.form.end_time = "10:30"
    /\ ~resp.form.is_active
    /\ schedules[1] = ScheduleRow(PyInt(1), PyInt(1), PyInt(0), PyTime(9, 0),
                                  PyTime(10, 0), DefaultMaxStudents, TRUE)
    /\ schedules[2].teacher_id = PyWord(1)

(***************************************************************************)
(* Algebraic properties of Schedule.conflicts_with                         *)
(***************************************************************************)
\* C16: for schedules A and B of the same teacher and weekday,
\* A.conflicts_with(B) = B.conflicts_with(A).
C16_ConflictSymmetric ==
    (/\ resp.op = "conflicts_with"
     /\ schedules[resp.self].teacher_id = schedules[resp.other].teacher_id
     /\ schedules[resp.self].day_of_week = schedules[resp.other].day_of_week)
        => resp.result = conflicts_with(schedules[resp.other], schedules[resp.self])

\* A = 9:00-10:30 and B = 10:00-11:00 of one teacher and weekday, compared
\* in the order that meets B's end before A's start: they conflict
C16_Witness ==
    /\ resp.op = "conflicts_with"
    /\ schedules[resp.self].teacher_id = schedules[resp.other].teacher_id
    /\ schedules[resp.self].day_of_week = schedules[resp.other].day_of_week
    /\ schedules[resp.self].start_time = PyTime(10, 0)
    /\ schedules[resp.self].end_time = PyTime(11, 0)
    /\ schedules[resp.other].start_time = PyTime(9, 0)
    /\ schedules[resp.other].end_time = PyTime(10, 30)
    /\ resp.result

\* C17: A.conflicts_with(A) is true for every schedule A with
\* start_time < end_time, and false for a schedule whose start_time is not
\* before its end_time.
C17_SelfConflict ==
    (resp.op = "conflicts_with" /\ schedules[resp.self] = schedules[resp.other])
        => (resp.result <=> Minutes(schedules[resp.self].start_time)
                                < Minutes(schedules[resp.self].end_time))

\* a schedule from 10:00 to 10:00 has been compared with itself: no conflict
C17_Witness ==
    /\ resp.op = "conflicts_with"
    /\ resp.self = resp.other
    /\ schedules[resp.self].start_time = PyTime(10, 0)
    /\ schedules[resp.self].end_time = PyTime(10, 0)
    /\ ~resp.result

(***************************************************************************)
(* Properties of login_required                                            *)
(***************************************************************************)
\* the role that the decorator of each route asks for
RouteRole(op) ==
    IF op \in {"enroll_child", "cancel_enrollment", "delete_child"} THEN "parent"
    ELSE "center"

\* C18: the body of a route decorated with login_required(role=R) runs only
\* for a session that holds a user_id and whose user_role is R; a request
\* without a session is redirected to login, one of another role to the
\* dashboard, and neither changes any stored row.
C18_RoleGate ==
    [][resp'.op \in {"enroll_child", "cancel_enrollment", "delete_child",
                     "delete_program", "delete_schedule", "add_program"} =>
        /\ resp'.sess = Anonymous
            => /\ resp'.reason = "login" /\ resp'.code = 302
               /\ UNCHANGED <<users, parents, centers, children, programs,
                              teachers, schedules, enrollments>>
        /\ (resp'.sess # Anonymous /\ resp'.sess.user_role # RouteRole(resp'.op))
            => /\ resp'.reason = "dashboard" /\ resp'.code = 302
               /\ UNCHANGED <<users, parents, centers, children, programs,
                              teachers, schedules, enrollments>>
        /\ resp'.reason \notin {"login", "dashboard"}
            => resp'.sess # Anonymous /\ resp'.sess.user_role = RouteRole(resp'.op)]_vars

\* the account of center 1 has just asked to enroll a child and was sent to
\* the dashboard; no enrollment exists
C18_Witness ==
    /\ resp.op = "enroll_child"
    /\ resp.sess = [user_role |-> "center", profile |-> 1]
    /\ resp.reason = "dashboard"
    /\ enrollments = <<>>

(***************************************************************************)
(* Properties of the registrations                                         *)
(***************************************************************************)
UniqueEmails ==
    \A u \in DOMAIN users : \A v \in DOMAIN users :
        users[u].email = users[v].email => u = v

\* C19: after any sequence of register_parent, register_center and
\* register_teacher requests no two User rows have the same email, and a
\* registration with an email that a User row has already creates no User,
\* Parent, Center or Teacher row.
C19_OneUserPerEmail ==
    [][/\ UniqueEmails'
       /\ (/\ resp'.op \in {"register_parent", "register_center", "register_teacher"}
           /\ \E u \in DOMAIN users : users[u].email = resp'.email)
            => /\ resp'.reason # "success"
               /\ UNCHANGED <<users, parents, centers, teachers>>]_vars

\* a teacher registration with the email of the parent account, and a valid
\* invite code, has just been refused
C19_Witness ==
    /\ resp.op = "register_teacher"
    /\ resp.email = "p1@kidfit.kz"
    /\ resp.invite_code = "A1B2C3D4"
    /\ resp.reason = "email_registered"
    /\ UniqueEmails
    /\ Cardinality(DOMAIN users) > Cardinality(DOMAIN Users0)

\* the centers whose invite code is the code typed, in upper case
CentersOfTyped(invite_code) ==
    {c \in DOMAIN centers : centers[c].invite_code = Upper(invite_code)}

\* C20: register_teacher creates a teacher only when the submitted invite
\* code, upper-cased, is the invite code of an existing center; the Teacher
\* row then refers to that center and to the User row created with it; with
\* a code of no center neither a User nor a Teacher row is created.
C20_InviteCodeGate ==
    [][/\ resp'.op = "register_teacher" =>
            /\ CentersOfTyped(resp'.invite_code) = {}
                => /\ resp'.reason # "success"
                   /\ UNCHANGED <<users, teachers>>
            /\ resp'.reason = "success"
                => /\ Cardinality(CentersOfTyped(resp'.invite_code)) = 1
                   /\ users' = Insert(users, UserRow(resp'.email, "teacher"))
                   /\ \E t \in DOMAIN teachers' \ DOMAIN teachers :
                         /\ DOMAIN teachers' = DOMAIN teachers \cup {t}
                         /\ teachers'[t].user_id = resp'.user_id
                         /\ teachers'[t].center_id \in CentersOfTyped(resp'.invite_code)
                         /\ \A o \in DOMAIN teachers : teachers'[o] = teachers[o]
            /\ UNCHANGED <<parents, centers>>
       /\ teachers' # teachers => resp'.op = "register_teacher" /\ resp'.reason = "success"]_vars

\* a teacher who typed the code of a center registered after the first two,
\* in lower case, has just joined that center
C20_Witness ==
    /\ resp.op = "register_teacher"
    /\ resp.reason = "success"
    /\ resp.invite_code = "ffffffff"
    /\ \E t \in DOMAIN teachers :
          /\ teachers[t].user_id = resp.user_id
          /\ teachers[t].center_id = 3
          /\ centers[3].invite_code = "FFFFFFFF"


(***************************************************************************)
(* Users and their profile rows (register_parent, register_center,         *)
(* register_teacher).                                                      *)
(***************************************************************************)
ProfilesOf(table, user_id) == {p \in DOMAIN table : table[p].user_id = user_id}

ProfileTable(role) ==
    CASE role = "parent" -> parents
      [] role = "center" -> centers
      [] role = "teacher" -> teachers

\* C21: after any sequence of registrations, those whose commit fails after
\* the User was flushed included, every User has exactly one profile row, in
\* the table of its role and in no other, and every Parent, Center and
\* Teacher row belongs to an existing User of that role.
C21_UserProfilePairs ==
    /\ \A u \in DOMAIN users :
          \A role \in {"parent", "center", "teacher"} :
            Cardinality(ProfilesOf(ProfileTable(role), u))
                = IF users[u].role = role THEN 1 ELSE 0
    /\ \A role \in {"parent", "center", "teacher"} :
          \A p \in DOMAIN ProfileTable(role) :
            /\ ProfileTable(role)[p].user_id \in DOMAIN users
            /\ users[ProfileTable(role)[p].user_id].role = role

\* a center registration under a new email lost its commit after a teacher
\* had registered
C21_Witness ==
    /\ resp.op = "register_center"
    /\ resp.reason = "error"
    /\ existing_user(resp.email) = {}
    /\ DOMAIN teachers # {}


\* C22: for a child whose birth date is unknown (None), enroll_child makes no
\* age check: the duplicate and capacity checks passing, the enrollment
\* succeeds whatever the program's min_age and max_age are.
C22_UnknownBirthDateSkipsAge ==
    [][(/\ EnrollLookupsPass
        /\ children[resp'.child_id].birth_date = None
        /\ RowsOfPair(enrollments, resp'.child_id, resp'.schedule_id, "active") = {}
        /\ ActiveCount(resp'.schedule_id) < schedules[resp'.schedule_id].max_students)
        => /\ resp'.reason = "success"
           /\ RowsOfPair(enrollments', resp'.child_id, resp'.schedule_id, "active")
                = {resp'.enrollment_id}]_vars

\* a child of unknown birth date was enrolled in a program whose min_age and
\* max_age are both 1
C22_Witness ==
    /\ resp.op = "enroll_child"
    /\ resp.reason = "success"
    /\ children[resp.child_id].birth_date = None
    /\ programs[schedules[resp.schedule_id].program_id.val].min_age = PyInt(1)
    /\ programs[schedules[resp.schedule_id].program_id.val].max_age = PyInt(1)


\* C23: in every state reached by add_schedule, edit_schedule and
\* delete_schedule requests, one at a time, no two distinct active schedules
\* of the same teacher on the same weekday have overlapping time intervals.
C23_NoOverlappingSchedules ==
    \A a \in DOMAIN schedules : \A b \in DOMAIN schedules \ {a} :
        (/\ schedules[a].is_active
         /\ schedules[b].is_active
         /\ schedules[a].teacher_id = schedules[b].teacher_id
         /\ schedules[a].day_of_week = schedules[b].day_of_week)
        => ~Overlap(schedules[a], schedules[b])


(***************************************************************************)
(* Capacity over the life of a class (SpecClass).                          *)
(***************************************************************************)
\* C24: in every state reached by enroll_child, cancel_enrollment,
\* approve_enrollment and edit_schedule requests, one at a time, no schedule
\* has more active enrollments than its max_students.
C24_CapacityInvariant ==
    \A s \in DOMAIN schedules : ActiveCount(s) <= schedules[s].max_students

\* C24, as the code has it: enroll_child and cancel_enrollment never raise a
\* schedule's number of active enrollments above its max_students: after
\* either, a schedule whose number grew has at most max_students of them.
C24_EnrollKeepsCapacity ==
    [][resp'.op \in {"enroll_child", "cancel_enrollment"} =>
        \A s \in DOMAIN schedules :
            ActiveCount(s)' > ActiveCount(s)
                => ActiveCount(s)' <= schedules'[s].max_students]_vars

\* enroll_child answered "class full" for a class that an edit of its
\* max_students or an approval had left with more active enrollments than
\* seats
C24_Witness ==
    /\ resp.op = "enroll_child"
    /\ resp.reason = "class_full"
    /\ ActiveCount(resp.schedule_id) > schedules[resp.schedule_id].max_students


(***************************************************************************)
(* available_programs against enroll_child (SpecAvailable).                *)
(***************************************************************************)
\* C25: available_programs lists a schedule for a child if and only if an
\* enroll_child request for that child and schedule would succeed at that
\* moment: the same duplicate, age and capacity decisions, inactive
\* schedules and children of computed age 0 included.
C25_ListedIffEnrollable ==
    (resp.op = "available_programs" /\ resp.code = 200) =>
        \A s \in DOMAIN schedules :
            s \in resp.listed <=> EnrollDecision(resp.sess, s, resp.child_id) = "ok"


(***************************************************************************)
(* The rows add_schedule and edit_schedule store (SpecOwner).              *)
(***************************************************************************)
\* C26: every schedule that add_schedule or edit_schedule stores has a
\* teacher and a program of one center, the center whose account made the
\* request.
C26_TeacherAndProgramOfCenter ==
    [][(resp'.op \in {"add_schedule", "edit_schedule"} /\ resp'.reason = "success") =>
        LET row == schedules'[resp'.schedule_id]
        IN  /\ row.program_id.val \in DOMAIN programs
            /\ row.teacher_id.val \in DOMAIN teachers
            /\ programs[row.program_id.val].center_id = resp'.sess.profile
            /\ teachers[row.teacher_id.val].center_id = resp'.sess.profile]_vars


\* C27: when two enroll_child requests for the same child and the same
\* schedule are served at the same time, the pair has at most one active
\* enrollment once both requests have completed.
C27_RaceKeepsOnePerPair ==
    (/\ \A r \in RaceRequests : inflight[r].pc = "done"
     /\ inflight[1].child_id = inflight[2].child_id
     /\ inflight[1].schedule_id = inflight[2].schedule_id)
    => Cardinality(RowsOfPair(enrollments, inflight[1].child_id,
                              inflight[1].schedule_id, "active")) <= 1


\* C28: in every state reached by enroll_child, cancel_enrollment,
\* approve_enrollment, delete_child, delete_schedule, delete_program and
\* edit_schedule requests, every active enrollment references an existing
\* child and an existing schedule whose program exists.
C28_ActiveEnrollmentsReferRows ==
    \A e \in DOMAIN enrollments :
        enrollments[e].status = "active" =>
            /\ enrollments[e].child_id \in DOMAIN children
            /\ enrollments[e].schedule_id \in DOMAIN schedules
            /\ schedules[enrollments[e].schedule_id].program_id.val \in DOMAIN programs


\* C29: every schedule stored by add_schedule or edit_schedule has
\* start_time < end_time, and a request whose start_time is equal to or
\* later than its end_time is rejected: nothing is stored or changed, and
\* unless the session or the lookups fail first the answer is "end time
\* must be after start time".
C29_StartBeforeEnd ==
    [][/\ \A s \in DOMAIN schedules' :
            TimeLT(schedules'[s].start_time, schedules'[s].end_time)
       /\ \A form \in OwnerForms :
            (/\ ~TimeLT(fromisoformat(form.start_time), fromisoformat(form.end_time))
             /\ \/ /\ resp'.op = "add_schedule"
                   /\ add_schedule(resp'.sess, form, TRUE)
                \/ /\ resp'.op = "edit_schedule"
                   /\ edit_schedule(resp'.sess, resp'.schedule_id, form, TRUE))
            => /\ schedules' = schedules
               /\ \/ resp'.reason = "end_before_start"
                  \/ resp'.reason \in {"invalid_selection", "schedule_not_found"}
                  \/ login_required(resp'.sess, "center") # "ok"]_vars

\* an edit that would have turned a stored class into one ending at or
\* before its start was rejected
C29_Witness ==
    /\ resp.op = "edit_schedule"
    /\ resp.reason = "end_before_start"
    /\ resp.schedule_id \in DOMAIN schedules
    /\ TimeLT(schedules[resp.schedule_id].start_time, schedules[resp.schedule_id].end_time)


(***************************************************************************)
(* Whose enrollments cancel_enrollment and approve_enrollment change       *)
(* (SpecEnroll).                                                           *)
(***************************************************************************)
\* the enrollment the request answered by resp' names is one of a child of
\* the requesting parent
OwnChildEnrollment ==
    /\ login_required(resp'.sess, "parent") = "ok"
    /\ resp'.enrollment_id \in DOMAIN enrollments
    /\ children[enrollments[resp'.enrollment_id].child_id].parent_id
            = resp'.sess.profile

\* ... is one on a schedule of a program of the requesting center
OwnProgramEnrollment ==
    /\ login_required(resp'.sess, "center") = "ok"
    /\ resp'.enrollment_id \in DOMAIN enrollments
    /\ programs[schedules[enrollments[resp'.enrollment_id].schedule_id]
                    .program_id.val].center_id = resp'.sess.profile

\* C30: cancel_enrollment changes an enrollment only when its child belongs
\* to the requesting parent, approve_enrollment only when its schedule's
\* program belongs to the requesting center; otherwise the request is
\* answered as enrollment-not-found and no enrollment changes.  A success
\* changes the status of that one enrollment and nothing else.
C30_OwnEnrollmentsOnly ==
    [][/\ resp'.op = "cancel_enrollment" =>
            IF OwnChildEnrollment
            THEN /\ resp'.reason = "success"
                 /\ enrollments' = [enrollments EXCEPT
                        ![resp'.enrollment_id].status = "cancelled"]
            ELSE /\ enrollments' = enrollments
                 /\ login_required(resp'.sess, "parent") = "ok"
                        => resp'.reason = "enrollment_not_found"
       /\ resp'.op = "approve_enrollment" =>
            IF OwnProgramEnrollment
            THEN /\ resp'.reason = "success"
                 /\ enrollments' = [enrollments EXCEPT
                        ![resp'.enrollment_id].status = "active"]
            ELSE /\ enrollments' = enrollments
                 /\ login_required(resp'.sess, "center") = "ok"
                        => resp'.reason = "enrollment_not_found"]_vars

\* parent 1 was answered enrollment-not-found for the active enrollment of
\* the child of parent 2, which stays active
C30_Witness ==
    /\ resp.op = "cancel_enrollment"
    /\ resp.reason = "enrollment_not_found"
    /\ resp.sess = [user_role |-> "parent", profile |-> 1]
    /\ resp.enrollment_id \in DOMAIN enrollments
    /\ enrollments[resp.enrollment_id].status = "active"
    /\ children[enrollments[resp.enrollment_id].child_id].parent_id = 2

====
